---------------------------- MODULE Spec2Model ----------------------------
(***************************************************************************)
(* EcoSprout farm dashboard: the derived-metrics engine (the five field    *)
(* scorers, the sustainability aggregator, the score card), the handlers   *)
(* of the dashboard that build the histories the scorers read, the scores  *)
(* of the reports page, and the financial pages (summaries and goals).     *)
(*                                                                         *)
(* Numbers.  A JavaScript number is modelled as an exact fraction <<n, d>> *)
(* in lowest terms with d >= 0: d > 0 is the finite value n/d, <<1, 0>> is *)
(* Infinity, <<-1, 0>> is -Infinity and <<0, 0>> is NaN.  Arithmetic is    *)
(* exact (no binary rounding) except for the sums of the financial pages,  *)
(* negative zero is not distinguished from zero, and Math.sqrt is computed *)
(* to 1/SqrtScale.                                                         *)
(*                                                                         *)
(* Strings.  A string is the sequence of its characters, so toLowerCase    *)
(* and includes are computed, not looked up.                               *)
(*                                                                         *)
(* Dates.  A well-formed date string is the number of its calendar day, a  *)
(* malformed one is BadDate; new Date(s).setHours(0,0,0,0) is the          *)
(* millisecond count of the day's midnight, or NaN.                        *)
(***************************************************************************)
EXTENDS Integers, Sequences, FiniteSets, TLC

VARIABLES
    farms,                  \* the farms (fields) of the dashboard, in list order
    weatherData,            \* the weather series last fetched
    rendered,               \* whether the page has rendered with this data
    farmMetrics,            \* the five sub-scores of every farm (last render)
    sustainabilityMetrics,  \* the aggregator's result (last render), or Null
    scoreCard,              \* the score card's result (last render), or Null
    editingWaterUsage,      \* the water entry being edited, or Null
    confirmDelete,          \* the pending delete request, or Null
    selectedFarm,           \* the farm selected on the reports page, or all
    reportPeriod,           \* the period selected on the reports page
    sustainabilityData,     \* the sustainability report (last evaluation)
    financialData,          \* the financial entries, in list order
    goals,                  \* the financial goals, in list order
    goalsRef,               \* the identity of the array that holds the goals
    selectedYear,           \* the year selected in financial planning
    yearSummary,            \* financial planning's summary (last render)
    financialSummary,       \* the financial tools' summary (last render)
    tasks,                  \* the farm tasks, in list order
    issues,                 \* the field issues, in list order
    cropPlanEvents,         \* the events of the crop plan, in list order
    importNotification,     \* the notification of the last import, or Null
    exported                \* the file handleExportData has written, or Null

dashboardVars == <<farms, weatherData, rendered, farmMetrics,
                   sustainabilityMetrics, scoreCard, editingWaterUsage,
                   confirmDelete>>

reportVars == <<selectedFarm, reportPeriod, sustainabilityData>>

financeVars == <<financialData, goals, goalsRef, selectedYear, yearSummary,
                 financialSummary>>

dataVars == <<tasks, issues, cropPlanEvents, importNotification, exported>>

vars == <<dashboardVars, reportVars, financeVars, dataVars>>

-----------------------------------------------------------------------------
(* JavaScript numbers *)

NaN == <<0, 0>>

\* a missing optional number (undefined); a number is never the empty tuple
Undefined == <<>>

\* null, where a record is expected
Null == [null |-> TRUE]

\* the value of an expression given as a singleton set: an operand bound by
\* {e(a) : a \in {x}} is evaluated once, however often e uses it
Val(S) == CHOOSE r \in S : TRUE

Abs(i) == Val({IF j < 0 THEN -j ELSE j : j \in {i}})

Sgn(i) == Val({IF j < 0 THEN -1 ELSE IF j > 0 THEN 1 ELSE 0 : j \in {i}})

RECURSIVE Gcd(_, _)
Gcd(a, b) == Val({IF d = 0 THEN c ELSE Gcd(d, c % d) : c \in {a}, d \in {b}})

\* the fraction n/d (d >= 0) in lowest terms; n/0 is +-Infinity or NaN
Norm(n, d) ==
    Val({IF e = 0 THEN <<Sgn(m), 0>>
         ELSE Val({<<m \div g, e \div g>> : g \in {Gcd(Abs(m), e)}}) :
            m \in {n}, e \in {d}})

R(i) == <<i, 1>>

Frac(n, d) == Norm(n, d)

IsNaN(x) == x = NaN

IsFinite(x) == x[2] > 0

Neg(x) == Val({<<-a[1], a[2]>> : a \in {x}})

Add(x, y) ==
    Val({IF IsNaN(a) \/ IsNaN(b) THEN NaN
         ELSE IF a[2] = 0 /\ b[2] = 0 THEN (IF a[1] = b[1] THEN a ELSE NaN)
         ELSE Norm(a[1] * b[2] + b[1] * a[2], a[2] * b[2]) :
            a \in {x}, b \in {y}})

Sub(x, y) == Add(x, Neg(y))

\* x * y; the factors are cancelled crosswise first, so that no intermediate
\* product is larger than the result
Mul(x, y) ==
    Val({IF IsNaN(a) \/ IsNaN(b) THEN NaN
         ELSE IF a[2] = 0 \/ b[2] = 0 THEN Norm(a[1] * b[1], 0)
         ELSE Val({Norm((a[1] \div g) * (b[1] \div h), (a[2] \div h) * (b[2] \div g)) :
                      g \in {Gcd(Abs(a[1]), b[2])}, h \in {Gcd(Abs(b[1]), a[2])}}) :
            a \in {x}, b \in {y}})

Div(x, y) ==
    Val({IF IsNaN(a) \/ IsNaN(b) THEN NaN
         ELSE IF b[1] < 0 THEN Norm(-(a[1] * b[2]), -(a[2] * b[1]))
         ELSE Norm(a[1] * b[2], a[2] * b[1]) :
            a \in {x}, b \in {y}})

\* x < y, x > y, ... : every comparison with NaN is false
Lt(x, y) ==
    Val({/\ ~IsNaN(a)
         /\ ~IsNaN(b)
         /\ IF a[2] = 0 /\ b[2] = 0 THEN a[1] < b[1]
            ELSE a[1] * b[2] < b[1] * a[2] :
            a \in {x}, b \in {y}})

Gt(x, y) == Lt(y, x)

Le(x, y) == Val({~IsNaN(a) /\ ~IsNaN(b) /\ ~Lt(b, a) : a \in {x}, b \in {y}})

Ge(x, y) == Le(y, x)

MathMin(x, y) ==
    Val({IF IsNaN(a) \/ IsNaN(b) THEN NaN ELSE IF Lt(b, a) THEN b ELSE a :
            a \in {x}, b \in {y}})

MathMax(x, y) ==
    Val({IF IsNaN(a) \/ IsNaN(b) THEN NaN ELSE IF Lt(a, b) THEN b ELSE a :
            a \in {x}, b \in {y}})

MathAbs(x) == Val({<<Abs(a[1]), a[2]>> : a \in {x}})

\* Math.round: the nearest integer, halves up
MathRound(x) ==
    Val({IF ~IsFinite(a) THEN a ELSE <<(2 * a[1] + a[2]) \div (2 * a[2]), 1>> :
            a \in {x}})

\* Math.round(x * y) for x >= 0 and 0 < y <= 1, computed from the integer and
\* the fractional part of x so that the product itself is never formed
MathRoundMul(x, y) ==
    Val({IF ~IsFinite(a) \/ ~IsFinite(b) THEN MathRound(Mul(a, b))
         ELSE Val({<<(2 * whole + b[2] + (2 * part) \div a[2]) \div (2 * b[2]), 1>> :
                      whole \in {(a[1] \div a[2]) * b[1] + ((a[1] % a[2]) * b[1]) \div a[2]},
                      part \in {((a[1] % a[2]) * b[1]) % a[2]}}) :
            a \in {x}, b \in {y}})

\* truthiness of a number or of undefined: 0, NaN and undefined are falsy
Truthy(x) == Val({a # Undefined /\ ~IsNaN(a) /\ a[1] # 0 : a \in {x}})

\* x || y
OrElse(x, y) == Val({IF Truthy(a) THEN a ELSE y : a \in {x}})

SqrtScale == 100

RECURSIVE ISqrtBetween(_, _, _)
ISqrtBetween(x, lo, hi) ==
    Val({IF l >= h THEN l
         ELSE Val({IF mid * mid <= v THEN ISqrtBetween(v, mid, h)
                   ELSE ISqrtBetween(v, l, mid - 1) : mid \in {(l + h + 1) \div 2}}) :
            v \in {x}, l \in {lo}, h \in {hi}})

\* the integer part of the square root of a natural number
ISqrt(x) == Val({ISqrtBetween(v, 0, IF v < 46340 THEN v ELSE 46340) : v \in {x}})

\* Math.sqrt of a fraction, to 1/SqrtScale; exact on the squares of the model
MathSqrt(x) ==
    Val({IF IsNaN(a) \/ a[1] < 0 THEN NaN
         ELSE IF a[2] = 0 THEN a
         ELSE Val({IF rn * rn = a[1] /\ rd * rd = a[2] THEN Norm(rn, rd)
                   ELSE Norm(ISqrt((a[1] * SqrtScale * SqrtScale) \div a[2]), SqrtScale) :
                      rn \in {ISqrt(a[1])}, rd \in {ISqrt(a[2])}}) :
            a \in {x}})

\* an array built by Array.prototype.map, every element computed once
Array(f) == f \o <<>>

\* Array.prototype.reduce((sum, x) => sum + x, 0)
RECURSIVE SumSeq(_)
SumSeq(s) ==
    Val({IF Len(t) = 0 THEN R(0)
         ELSE Add(SumSeq(SubSeq(t, 1, Len(t) - 1)), t[Len(t)]) : t \in {s}})

-----------------------------------------------------------------------------
(* JavaScript strings *)

UpperCase == <<"A", "B", "C", "D", "E", "F", "G", "H", "I", "J", "K", "L", "M",
               "N", "O", "P", "Q", "R", "S", "T", "U", "V", "W", "X", "Y", "Z">>

LowerCase == <<"a", "b", "c", "d", "e", "f", "g", "h", "i", "j", "k", "l", "m",
               "n", "o", "p", "q", "r", "s", "t", "u", "v", "w", "x", "y", "z">>

LowerChar(c) ==
    IF \E i \in 1..Len(UpperCase) : UpperCase[i] = c
    THEN LowerCase[CHOOSE i \in 1..Len(UpperCase) : UpperCase[i] = c]
    ELSE c

\* String.prototype.toLowerCase
ToLowerCase(s) == Array([i \in 1..Len(s) |-> LowerChar(s[i])])

\* String.prototype.includes
Includes(s, sub) ==
    \E i \in 0..(Len(s) - Len(sub)) : SubSeq(s, i + 1, i + Len(sub)) = sub

rain == <<"r", "a", "i", "n">>

organic == <<"o", "r", "g", "a", "n", "i", "c">>

manure == <<"m", "a", "n", "u", "r", "e">>

compost == <<"c", "o", "m", "p", "o", "s", "t">>

-----------------------------------------------------------------------------
(* Dates *)

\* the day of a malformed date string (new Date(s) is an Invalid Date)
BadDate == -1

MsPerDay == 86400000

\* new Date(s).setHours(0, 0, 0, 0): the midnight of the day, NaN if malformed
Midnight(date) == IF date = BadDate THEN NaN ELSE R(date * MsPerDay)

\* === on two numbers: NaN equals nothing
NumEq(x, y) == ~IsNaN(x) /\ ~IsNaN(y) /\ x = y

\* new Date(s).toDateString(): the calendar day, and the one text
\* "Invalid Date" for every malformed date
ToDateString(date) == IF date = BadDate THEN BadDate ELSE date

\* Array.prototype.find, as the index of the first element that satisfies the
\* test; 0 when there is none (find returns undefined)
Find(s, Test(_)) ==
    IF \E i \in 1..Len(s) : Test(s[i])
    THEN CHOOSE i \in 1..Len(s) : Test(s[i]) /\ \A j \in 1..(i - 1) : ~Test(s[j])
    ELSE 0

\* Array.prototype.filter
Filter(s, Test(_)) == SelectSeq(s, Test)

-----------------------------------------------------------------------------
(* The scorers of the farm dashboard *)

\* w?.weather.toLowerCase().includes('rain'), w given by its index (0: undefined)
IsRain(weather, i) == i # 0 /\ Includes(ToLowerCase(weather[i].weather), rain)

\* the score of one water application
calculateWaterEfficiencyOf(waterUsage, weather) ==
    LET waterDate == Midnight(waterUsage.date)
        SameDay(w) == NumEq(Midnight(w.date), waterDate)
        DayBefore(w) == NumEq(Midnight(w.date), Sub(waterDate, R(MsPerDay)))
        dayWeather == Find(weather, SameDay)
        previousDayWeather == Find(weather, DayBefore)
        s0 == R(100)
        s1 == IF IsRain(weather, dayWeather) THEN Mul(s0, Frac(5, 10)) ELSE s0
        s2 == IF IsRain(weather, previousDayWeather) THEN Mul(s1, Frac(7, 10)) ELSE s1
    IN IF dayWeather # 0 /\ Truthy(R(weather[dayWeather].temp))
       THEN IF weather[dayWeather].temp > 30 THEN Mul(s2, Frac(9, 10))
            ELSE IF weather[dayWeather].temp < 10 THEN Mul(s2, Frac(95, 100))
            ELSE s2
       ELSE s2

\* the water score of a farm: the score of the last element of its history
calculateWaterEfficiency(waterHistory, weather) ==
    IF Len(waterHistory) = 0 THEN R(0)
    ELSE LET waterUsage == waterHistory[Len(waterHistory)]
             waterDate == Midnight(waterUsage.date)
             SameDay(w) == NumEq(Midnight(w.date), waterDate)
             DayBefore(w) == NumEq(Midnight(w.date), Sub(waterDate, R(MsPerDay)))
             dayWeather == Find(weather, SameDay)
             previousDayWeather == Find(weather, DayBefore)
             s0 == R(100)
             s1 == IF IsRain(weather, dayWeather) THEN Mul(s0, Frac(5, 10)) ELSE s0
             s2 == IF IsRain(weather, previousDayWeather) THEN Mul(s1, Frac(7, 10)) ELSE s1
         IN IF dayWeather # 0 /\ Truthy(R(weather[dayWeather].temp))
            THEN IF weather[dayWeather].temp > 30 THEN Mul(s2, Frac(9, 10))
                 ELSE IF weather[dayWeather].temp < 10 THEN Mul(s2, Frac(95, 100))
                 ELSE s2
            ELSE s2

calculateSoilQualityScore(farm) ==
    LET s0 == R(70)
        s1 == IF Truthy(farm.organicMatter)
              THEN Add(s0, Mul(farm.organicMatter, R(5))) ELSE s0
        s2 == IF Truthy(farm.soilPH)
              THEN Sub(s1, Mul(MathAbs(Sub(farm.soilPH, Frac(65, 10))), R(5)))
              ELSE s1
        s3 == IF Len(farm.rotationHistory) # 0
              THEN Add(s2, MathMin(R(15), R(Len(farm.rotationHistory) * 5)))
              ELSE s2
    IN MathMax(R(0), MathMin(R(100), s3))

Amounts(history) == Array([i \in 1..Len(history) |-> R(history[i].amount)])

\* a test of the type as it is written, without toLowerCase
IsOrganicFertilizerCaseSensitive(f) ==
    \/ Includes(f.type, organic)
    \/ Includes(f.type, manure)
    \/ Includes(f.type, compost)

IsOrganicFertilizer(f) ==
    \/ Includes(ToLowerCase(f.type), organic)
    \/ Includes(ToLowerCase(f.type), manure)
    \/ Includes(ToLowerCase(f.type), compost)

\* an organic scorer whose rotation bonus needs a fertilizer amount > 0
calculateOrganicScoreRotationWithFertilizer(farm) ==
    LET totalFertilizerAmount == SumSeq(Amounts(farm.fertilizerHistory))
        organicFertilizers == Filter(farm.fertilizerHistory, IsOrganicFertilizer)
        organicFertilizerAmount == SumSeq(Amounts(organicFertilizers))
        organicPercentage == Div(organicFertilizerAmount, totalFertilizerAmount)
        chemicalFertilizerAmount == Sub(totalFertilizerAmount, organicFertilizerAmount)
        chemicalPenalty ==
            MathMin(R(30), Mul(Div(chemicalFertilizerAmount, R(1000)), R(10)))
        s0 == R(70)
        s1 == IF Gt(totalFertilizerAmount, R(0))
              THEN LET a == Add(s0, Mul(organicPercentage, R(20)))
                       b == IF Gt(chemicalFertilizerAmount, R(0))
                            THEN Sub(a, chemicalPenalty) ELSE a
                   IN IF Len(farm.rotationHistory) # 0
                      THEN Add(b, MathMin(R(10), R(Len(farm.rotationHistory) * 2)))
                      ELSE b
              ELSE s0
        s3 == IF Len(organicFertilizers) >= 3 THEN Add(s1, R(10)) ELSE s1
    IN MathMin(R(100), MathMax(R(0), s3))

calculateOrganicScore(farm) ==
    LET totalFertilizerAmount == SumSeq(Amounts(farm.fertilizerHistory))
        organicFertilizers == Filter(farm.fertilizerHistory, IsOrganicFertilizer)
        organicFertilizerAmount == SumSeq(Amounts(organicFertilizers))
        organicPercentage == Div(organicFertilizerAmount, totalFertilizerAmount)
        chemicalFertilizerAmount == Sub(totalFertilizerAmount, organicFertilizerAmount)
        chemicalPenalty ==
            MathMin(R(30), Mul(Div(chemicalFertilizerAmount, R(1000)), R(10)))
        s0 == R(70)
        s1 == IF Gt(totalFertilizerAmount, R(0))
              THEN LET a == Add(s0, Mul(organicPercentage, R(20)))
                   IN IF Gt(chemicalFertilizerAmount, R(0))
                      THEN Sub(a, chemicalPenalty) ELSE a
              ELSE s0
        s2 == IF Len(farm.rotationHistory) # 0
              THEN Add(s1, MathMin(R(10), R(Len(farm.rotationHistory) * 2)))
              ELSE s1
        s3 == IF Len(organicFertilizers) >= 3 THEN Add(s2, R(10)) ELSE s2
    IN MathMin(R(100), MathMax(R(0), s3))

\* the number of harvests made on a day whose weather is rain
RainHarvests(harvestHistory, weather) ==
    Cardinality({i \in 1..Len(harvestHistory) :
        LET OnDay(w) == ToDateString(w.date) = ToDateString(harvestHistory[i].date)
        IN IsRain(weather, Find(weather, OnDay))})

\* a harvest scorer without the guard for an empty history
calculateHarvestEfficiencyUnguarded(farm, weather) ==
    LET yields == Amounts(farm.harvestHistory)
        n == R(Len(yields))
        avgYield == Div(SumSeq(yields), n)
        squares == Array([i \in 1..Len(yields) |->
                       Mul(Sub(yields[i], avgYield), Sub(yields[i], avgYield))])
        yieldVariation == Div(MathSqrt(Div(SumSeq(squares), n)), avgYield)
        s1 == Sub(R(100), Mul(yieldVariation, R(20)))
        s2 == Sub(s1, R(5 * RainHarvests(farm.harvestHistory, weather)))
    IN MathMin(R(100), MathMax(R(0), s2))

calculateHarvestEfficiency(farm, weather) ==
    IF Len(farm.harvestHistory) = 0 THEN R(0)
    ELSE LET yields == Amounts(farm.harvestHistory)
             n == R(Len(yields))
             avgYield == Div(SumSeq(yields), n)
             squares == Array([i \in 1..Len(yields) |->
                            Mul(Sub(yields[i], avgYield), Sub(yields[i], avgYield))])
             yieldVariation == Div(MathSqrt(Div(SumSeq(squares), n)), avgYield)
             s1 == Sub(R(100), Mul(yieldVariation, R(20)))
             s2 == Sub(s1, R(5 * RainHarvests(farm.harvestHistory, weather)))
         IN MathMin(R(100), MathMax(R(0), s2))

\* a rotation scorer without the final clamp to 100
calculateRotationScoreUnclamped(farm) ==
    IF Len(farm.rotationHistory) = 0 THEN R(0)
    ELSE LET base == MathMin(R(100), R(Len(farm.rotationHistory) * 20))
             uniqueCrops ==
                 Cardinality({farm.rotationHistory[i].crop :
                                  i \in 1..Len(farm.rotationHistory)})
         IN Add(base, MathMin(R(20), R(uniqueCrops * 5)))

calculateRotationScore(farm) ==
    IF Len(farm.rotationHistory) = 0 THEN R(0)
    ELSE LET base == MathMin(R(100), R(Len(farm.rotationHistory) * 20))
             uniqueCrops ==
                 Cardinality({farm.rotationHistory[i].crop :
                                  i \in 1..Len(farm.rotationHistory)})
         IN MathMin(R(100), Add(base, MathMin(R(20), R(uniqueCrops * 5))))

-----------------------------------------------------------------------------
(* The sustainability aggregator of the farm dashboard *)

MetricKeys == <<"waterEfficiency", "organicScore", "harvestEfficiency",
                "soilQualityScore", "rotationScore">>

weights == [waterEfficiency |-> Frac(25, 100), organicScore |-> Frac(20, 100),
            harvestEfficiency |-> Frac(20, 100), soilQualityScore |-> Frac(20, 100),
            rotationScore |-> Frac(15, 100)]

\* farms.map(farm => ({waterEfficiency: ..., ...}))
FarmMetricsOf(fs, weather) ==
    Array([i \in 1..Len(fs) |->
        [waterEfficiency |-> calculateWaterEfficiency(fs[i].waterHistory, weather),
         organicScore |-> calculateOrganicScore(fs[i]),
         harvestEfficiency |-> calculateHarvestEfficiency(fs[i], weather),
         soilQualityScore |-> calculateSoilQualityScore(fs[i]),
         rotationScore |-> calculateRotationScore(fs[i])]])

\* a count that takes every farm, as an average over the whole list does
metricCountsOfAllFarms(fm, key) == Len(fm)

\* metricCounts[key]: the number of farms whose value for the key is > 0
metricCounts(fm, key) == Cardinality({i \in 1..Len(fm) : Gt(fm[i][key], R(0))})

\* avgMetrics[key] after the summing loop: the sum of the values > 0
metricSums(fm, key) ==
    SumSeq([i \in 1..Len(fm) |-> IF Gt(fm[i][key], R(0)) THEN fm[i][key] ELSE R(0)])

\* avgMetrics[key] after the averaging loop
avgMetrics(fm, key) ==
    IF metricCounts(fm, key) > 0
    THEN Div(metricSums(fm, key), R(metricCounts(fm, key)))
    ELSE R(0)

\* totalWeight after the averaging loop
totalWeight(fm) ==
    SumSeq([k \in 1..Len(MetricKeys) |->
        IF metricCounts(fm, MetricKeys[k]) > 0 THEN weights[MetricKeys[k]] ELSE R(0)])

\* overallScore after the averaging loop, before the renormalization
weightedSum(fm) ==
    SumSeq([k \in 1..Len(MetricKeys) |->
        IF metricCounts(fm, MetricKeys[k]) > 0
        THEN Mul(avgMetrics(fm, MetricKeys[k]), weights[MetricKeys[k]])
        ELSE R(0)])

\* an overall score that keeps the weighted sum as it is
overallScoreUnnormalized(fm) == weightedSum(fm)

\* overallScore after the renormalization, before rounding
overallScore(fm) ==
    IF Gt(totalWeight(fm), R(0)) /\ Lt(totalWeight(fm), R(1))
    THEN Div(weightedSum(fm), totalWeight(fm))
    ELSE weightedSum(fm)

\* an aggregator that looks at the farm list only
calculateSustainabilityMetricsAnyWeather(fs, weather) ==
    IF Len(fs) = 0 THEN Null
    ELSE Val({[overallScore |-> MathRound(overallScore(fm)),
               waterEfficiency |-> MathRound(avgMetrics(fm, "waterEfficiency")),
               organicScore |-> MathRound(avgMetrics(fm, "organicScore")),
               harvestEfficiency |-> MathRound(avgMetrics(fm, "harvestEfficiency")),
               soilQualityScore |-> MathRound(avgMetrics(fm, "soilQualityScore")),
               rotationScore |-> MathRound(avgMetrics(fm, "rotationScore"))] :
                 fm \in {FarmMetricsOf(fs, weather)}})

calculateSustainabilityMetrics(fs, weather) ==
    IF Len(fs) = 0 \/ Len(weather) = 0 THEN Null
    ELSE Val({[overallScore |-> MathRound(overallScore(fm)),
               waterEfficiency |-> MathRound(avgMetrics(fm, "waterEfficiency")),
               organicScore |-> MathRound(avgMetrics(fm, "organicScore")),
               harvestEfficiency |-> MathRound(avgMetrics(fm, "harvestEfficiency")),
               soilQualityScore |-> MathRound(avgMetrics(fm, "soilQualityScore")),
               rotationScore |-> MathRound(avgMetrics(fm, "rotationScore"))] :
                 fm \in {FarmMetricsOf(fs, weather)}})

-----------------------------------------------------------------------------
(* The sustainability aggregator of the field dashboard *)

\* acc[key] after fieldMetrics.reduce has visited the first n fields
RECURSIVE fieldMetricSums(_, _, _)
fieldMetricSums(fm, key, n) ==
    IF n = 0 THEN Undefined
    ELSE Add(OrElse(fieldMetricSums(fm, key, n - 1), R(0)), fm[n][key])

\* avgMetrics[key] of the field dashboard: the sum divided by fields.length
fieldAvgMetrics(fm, key) == Div(fieldMetricSums(fm, key, Len(fm)), R(Len(fm)))

\* the weighted sum over the keys of weights
fieldOverallScore(fm) ==
    SumSeq([k \in 1..Len(MetricKeys) |->
        Mul(fieldAvgMetrics(fm, MetricKeys[k]), weights[MetricKeys[k]])])

\* calculateSustainabilityMetrics of the field dashboard
calculateSustainabilityMetricsOfFields(fields, weather) ==
    IF Len(fields) = 0 \/ Len(weather) = 0 THEN Null
    ELSE Val({[overallScore |-> MathRound(fieldOverallScore(fm)),
               waterEfficiency |-> MathRound(fieldAvgMetrics(fm, "waterEfficiency")),
               organicScore |-> MathRound(fieldAvgMetrics(fm, "organicScore")),
               harvestEfficiency |->
                   MathRound(fieldAvgMetrics(fm, "harvestEfficiency")),
               soilQualityScore |-> MathRound(fieldAvgMetrics(fm, "soilQualityScore")),
               rotationScore |-> MathRound(fieldAvgMetrics(fm, "rotationScore"))] :
                 fm \in {FarmMetricsOf(fields, weather)}})

-----------------------------------------------------------------------------
(* The score card *)

Digits == <<"0", "1", "2", "3", "4", "5", "6", "7", "8", "9">>

IsDigit(c) == \E i \in 1..Len(Digits) : Digits[i] = c

DigitValue(c) == (CHOOSE i \in 1..Len(Digits) : Digits[i] = c) - 1

RECURSIVE ParseDigits(_, _)
ParseDigits(s, acc) ==
    Val({IF t = <<>> \/ ~IsDigit(Head(t)) THEN n
         ELSE ParseDigits(Tail(t), 10 * n + DigitValue(Head(t))) :
            t \in {s}, n \in {acc}})

\* parseFloat on the texts of the model: the leading run of digits, or NaN
ParseFloat(s) ==
    IF s = <<>> \/ ~IsDigit(Head(s)) THEN NaN ELSE R(ParseDigits(s, 0))

\* the multiplier of one harvest in calculateFieldMetrics
HarvestWeatherMultiplier(harvest, weather) ==
    LET harvestDate == Midnight(harvest.date)
        SameDay(w) == NumEq(Midnight(w.date), harvestDate)
        weatherConditions == Find(weather, SameDay)
        m1 == IF IsRain(weather, weatherConditions) THEN Frac(9, 10) ELSE R(1)
    IN IF weatherConditions = 0 THEN R(1)
       ELSE IF weather[weatherConditions].temp > 35 THEN Mul(m1, Frac(95, 100))
       ELSE m1

calculateFieldMetrics(field, weather) ==
    LET efficiency == Array([i \in 1..Len(field.waterHistory) |->
                          calculateWaterEfficiencyOf(field.waterHistory[i], weather)])
        avgWaterEfficiency ==
            IF Len(efficiency) > 0
            THEN Div(SumSeq([i \in 1..Len(efficiency) |-> OrElse(efficiency[i], R(0))]),
                     R(Len(efficiency)))
            ELSE R(100)
        fieldSize == ParseFloat(field.size)
        totalWaterUsage ==
            SumSeq([i \in 1..Len(efficiency) |->
                Div(Mul(R(field.waterHistory[i].amount), OrElse(efficiency[i], R(100))),
                    R(100))])
        waterPerAcre == OrElse(Div(totalWaterUsage, fieldSize), R(0))
        waterEfficiency ==
            MathMin(R(100), MathMax(R(0), Sub(R(100), Div(waterPerAcre, R(100)))))
        totalFertilizer == SumSeq(Amounts(field.fertilizerHistory))
        fertilizerPerAcre == OrElse(Div(totalFertilizer, fieldSize), R(0))
        organicScore ==
            MathMin(R(100), MathMax(R(0), Sub(R(100), Div(fertilizerPerAcre, R(10)))))
        harvestWithWeather ==
            Array([i \in 1..Len(field.harvestHistory) |->
                Mul(R(field.harvestHistory[i].amount),
                    HarvestWeatherMultiplier(field.harvestHistory[i], weather))])
        totalWeatherAdjustedHarvest == SumSeq(harvestWithWeather)
        harvestPerAcre == OrElse(Div(totalWeatherAdjustedHarvest, fieldSize), R(0))
        harvestEfficiency ==
            MathMin(R(100), MathMax(R(0), Mul(Div(harvestPerAcre, R(50)), R(100))))
    IN [waterEfficiency |-> Mul(waterEfficiency, Div(avgWaterEfficiency, R(100))),
        organicScore |-> organicScore,
        harvestEfficiency |-> harvestEfficiency]

\* a multiplier in which rain and an extreme temperature do not compound
weatherMultiplierOnce(weather) ==
    IF IsRain(weather, 1) \/ weather[1].temp > 35 \/ weather[1].temp < 5
    THEN Frac(95, 100) ELSE R(1)

\* the weather multiplier of the score card's overall score
weatherMultiplier(weather) ==
    LET m1 == IF IsRain(weather, 1) THEN Frac(95, 100) ELSE R(1)
    IN IF weather[1].temp > 35 \/ weather[1].temp < 5
       THEN Mul(m1, Frac(95, 100)) ELSE m1

\* the weighted score of the score card, before the weather multiplier
scoreCardWeighted(fields, weather) ==
    Val({LET Avg(key) == Div(SumSeq([i \in 1..Len(fields) |-> fieldMetrics[i][key]]),
                             R(Len(fields)))
         IN Add(Add(Mul(Avg("waterEfficiency"), Frac(4, 10)),
                    Mul(Avg("organicScore"), Frac(4, 10))),
                Mul(Avg("harvestEfficiency"), Frac(2, 10))) :
            fieldMetrics \in {Array([i \in 1..Len(fields) |->
                                 calculateFieldMetrics(fields[i], weather)])}})

SustainabilityScoreCard(filteredFields, weather) ==
    IF Len(filteredFields) = 0 \/ Len(weather) = 0 THEN Null
    ELSE [overallScore |->
            MathRoundMul(scoreCardWeighted(filteredFields, weather),
                         weatherMultiplier(weather))]

-----------------------------------------------------------------------------
(* The data of the model *)

\* getWeatherInfo(code).desc
getWeatherInfo(code) ==
    IF code <= 3 THEN <<"C", "l", "e", "a", "r">>
    ELSE IF code <= 48 THEN <<"C", "l", "o", "u", "d", "y">>
    ELSE IF code <= 67 THEN <<"R", "a", "i", "n">>
    ELSE IF code <= 77 THEN <<"S", "n", "o", "w">>
    ELSE <<"U", "n", "k", "n", "o", "w", "n">>

\* one day of the forecast: its date, its high temperature (Fahrenheit, as the
\* request asks) and the text of its weather code
WeatherDay(date, temp, code) ==
    [date |-> date, temp |-> temp, weather |-> getWeatherInfo(code)]

Compost == <<"C", "o", "m", "p", "o", "s", "t">>

NPK == <<"N", "P", "K">>

CowManure == <<"C", "o", "w", " ", "M", "A", "N", "U", "R", "E">>

CropNames == <<"corn", "soy", "wheat", "oats", "rye", "peas", "flax", "hemp">>

SizeTen == <<"1", "0">>

\* a size of zero, and the size of a form submitted with its size left empty
SizeZero == <<"0">>

SizeNone == <<>>

Farm(id, size, water, fertilizer, harvest, rotation, organicMatter, soilPH) ==
    [id |-> id, size |-> size, waterHistory |-> water,
     fertilizerHistory |-> fertilizer, harvestHistory |-> harvest,
     rotationHistory |-> rotation, organicMatter |-> organicMatter,
     soilPH |-> soilPH]

\* the farm handleAddFarm creates
NewFarm(id, size) == Farm(id, size, <<>>, <<>>, <<>>, <<>>, Undefined, Undefined)

SeqsUpTo(S, n) == UNION {{Array(h) : h \in [1..k -> S]} : k \in 0..n}

Min(a, b) == IF a < b THEN a ELSE b

\* a rotation history of n entries over u crops
Rotation(n, u) ==
    Array([i \in 1..n |-> [crop |-> CropNames[((i - 1) % u) + 1], startDate |-> i,
                           endDate |-> i]])

-----------------------------------------------------------------------------
(* Bounds *)

MaxWater == 2

MaxFertilizer == 3

MaxHarvest == 2

MaxRotation == 6

MaxCrops == 5

MaxFarms == 2

FeedDays == 2

-----------------------------------------------------------------------------
(* The inputs the scorers are evaluated on *)

WaterEntries == {[amount |-> 40000, date |-> d] : d \in (1..FeedDays) \cup {BadDate}}

FertilizerEntries ==
    {[type |-> Compost, amount |-> 100, date |-> 1],
     [type |-> Compost, amount |-> 4000, date |-> 1],
     [type |-> CowManure, amount |-> 100, date |-> 1],
     [type |-> NPK, amount |-> 100, date |-> 1],
     [type |-> NPK, amount |-> 4000, date |-> 1],
     [type |-> NPK, amount |-> -100, date |-> 1]}

HarvestEntries ==
    {[amount |-> a, date |-> d] : a \in {-10, 0, 10, 30}, d \in {1, BadDate}}

Rotations == {Rotation(n, u) : n \in 0..MaxRotation, u \in 1..MaxCrops}

OrganicMatters == {Undefined, R(0), R(2), R(10), R(-20)}

SoilPHs == {Undefined, R(0), Frac(65, 10), R(5), R(20)}

\* the high temperatures of a forecast day: zero, cold, mild and hot
Temperatures == {0, 8, 68, 95}

\* the forecasts of FeedDays consecutive days starting at day 1: each day
\* clear or rain, the days before the last one mild
Forecasts ==
    {Array([i \in 1..FeedDays |->
               WeatherDay(i, IF i = FeedDays THEN t ELSE 68, code[i])]) :
        code \in [1..FeedDays -> {0, 61}], t \in Temperatures}

MildForecast == Array([i \in 1..FeedDays |-> WeatherDay(i, 68, 0)])

\* forecasts whose first day is today's weather of every kind, and a forecast
\* whose dates do not parse
CurrentWeathers ==
    {<<WeatherDay(1, k[2], k[1])>> : k \in {<<0, 68>>, <<61, 68>>, <<0, 100>>,
                                             <<61, 100>>, <<61, 2>>}}
    \cup {<<WeatherDay(BadDate, 68, 61)>>}

Plain(id) == NewFarm(id, SizeTen)

WaterInputs ==
    {<<(<<[Plain(1) EXCEPT !.waterHistory = h]>>), w>> :
        h \in SeqsUpTo(WaterEntries, MaxWater), w \in Forecasts}

OrganicInputs ==
    {<<(<<[Plain(1) EXCEPT !.fertilizerHistory = h, !.rotationHistory = r]>>),
       MildForecast>> :
        h \in SeqsUpTo(FertilizerEntries, MaxFertilizer),
        r \in {Rotation(n, 1) : n \in {0, 3, MaxRotation}}}

HarvestInputs ==
    {<<(<<[Plain(1) EXCEPT !.harvestHistory = h]>>), w>> :
        h \in SeqsUpTo(HarvestEntries, MaxHarvest), w \in CurrentWeathers}

SoilInputs ==
    {<<(<<[Plain(1) EXCEPT !.organicMatter = om, !.soilPH = ph,
                           !.rotationHistory = r]>>), MildForecast>> :
        om \in OrganicMatters, ph \in SoilPHs, r \in Rotations}

\* farms with and without data for each sub-score: with or without a water
\* entry and a harvest, and either new, or with fertilizer amounts and an
\* organic matter that bring the organic and the soil score to 0, or with a
\* rotation entry
PortfolioFarms ==
    {[Plain(1) EXCEPT !.waterHistory = w, !.fertilizerHistory = so[1],
                      !.harvestHistory = h, !.rotationHistory = so[2],
                      !.organicMatter = so[3]] :
        w \in {<<>>, <<[amount |-> 40000, date |-> 1]>>},
        h \in {<<>>, <<[amount |-> 10, date |-> 1]>>},
        so \in {<<(<<>>), (<<>>), Undefined>>,
                <<(<<[type |-> Compost, amount |-> -100, date |-> 1],
                     [type |-> NPK, amount |-> 101, date |-> 1]>>), (<<>>), R(-20)>>,
                <<(<<>>), Rotation(1, 1), Undefined>>}}

Portfolios ==
    UNION {{Array([i \in 1..n |-> [p[i] EXCEPT !.id = i]]) : p \in [1..n -> PortfolioFarms]} :
              n \in 0..MaxFarms}

PortfolioInputs ==
    {<<p, w>> : p \in Portfolios,
                w \in {<<>>, <<WeatherDay(1, 68, 0)>>, <<WeatherDay(1, 100, 61)>>}}

\* farms of every size with and without a water entry, a fertilizer entry and
\* a harvest
SizeInputs ==
    {<<(<<[NewFarm(1, size) EXCEPT !.waterHistory = w, !.fertilizerHistory = f,
                                  !.harvestHistory = h]>>), MildForecast>> :
        size \in {SizeTen, SizeZero, SizeNone},
        w \in {<<>>, <<[amount |-> 40000, date |-> 1]>>},
        f \in {<<>>, <<[type |-> NPK, amount |-> 100, date |-> 1]>>,
                <<[type |-> NPK, amount |-> -100, date |-> 1]>>},
        h \in {<<>>, <<[amount |-> 10, date |-> 1]>>}}

ScoreInputs ==
    WaterInputs \cup OrganicInputs \cup HarvestInputs \cup SoilInputs
        \cup PortfolioInputs \cup SizeInputs

-----------------------------------------------------------------------------
(* Rendering: the page evaluates the scorers on the data it holds *)

\* the reports page is not mounted
NoReports ==
    selectedFarm = Null /\ reportPeriod = Null /\ sustainabilityData = Null

\* no task, issue or crop-plan event, no import and no export yet
NoData ==
    /\ tasks = <<>>
    /\ issues = <<>>
    /\ cropPlanEvents = <<>>
    /\ importNotification = Null
    /\ exported = Null

\* the financial pages are not mounted
NoFinance ==
    /\ financialData = <<>>
    /\ goals = <<>>
    /\ goalsRef = 0
    /\ selectedYear = Null
    /\ yearSummary = Null
    /\ financialSummary = Null

ScoresOf(fs, weather) ==
    /\ rendered' = TRUE
    /\ farmMetrics' = IF Len(fs) = 0 \/ Len(weather) = 0 THEN <<>>
                      ELSE FarmMetricsOf(fs, weather)
    /\ sustainabilityMetrics' = calculateSustainabilityMetrics(fs, weather)
    /\ scoreCard' = SustainabilityScoreCard(fs, weather)

\* a render after a handler of the farms, which keeps the other data
RenderOf(fs, weather) ==
    /\ ScoresOf(fs, weather)
    /\ UNCHANGED <<reportVars, financeVars, dataVars>>

\* the first render of a page given its data
Render ==
    /\ ~rendered
    /\ RenderOf(farms, weatherData)
    /\ UNCHANGED <<farms, weatherData, editingWaterUsage, confirmDelete>>

InitScore ==
    /\ \E in \in ScoreInputs : farms = in[1] /\ weatherData = in[2]
    /\ rendered = FALSE
    /\ farmMetrics = <<>>
    /\ sustainabilityMetrics = Null
    /\ scoreCard = Null
    /\ editingWaterUsage = Null
    /\ confirmDelete = Null
    /\ NoReports
    /\ NoFinance
    /\ NoData

NextScore == Render

SpecScore == InitScore /\ [][NextScore]_vars

-----------------------------------------------------------------------------
(* The dashboard: the farms it keeps and the handlers of the water history *)

MaxSavedFarms == 2

\* the dates the water form is submitted with
FormDates == {1, 2}

\* the amount the water form is submitted with, as the input holds it
FormAmount == <<"4", "0", "0", "0", "0">>

\* the forecasts the weather service answers with: day 1 clear or rain, the
\* later days clear, every day mild
FetchedForecasts ==
    {Array([i \in 1..FeedDays |-> WeatherDay(i, 68, IF i = 1 THEN code ELSE 0)]) :
        code \in {0, 61}}

\* farm.id.toString(), for the ids of the model
IdToString(id) == <<Digits[id + 1]>>

\* parseInt on the texts of the model
ParseInt(s) == ParseDigits(s, 0)

\* new Date(date).toISOString() of a well-formed date, which the dates of
\* the form are
ToISOString(date) == date

\* no dialog is open: the edit dialog, the confirmation dialog and the import
\* notification are modal, the page behind them takes no input
NoDialog ==
    editingWaterUsage = Null /\ confirmDelete = Null /\ importNotification = Null

\* the weather is fetched when the page is mounted; a failed request leaves
\* the series empty
fetchWeatherData ==
    /\ weatherData = <<>>
    /\ \E data \in FetchedForecasts \cup {<<>>} : weatherData' = data
    /\ UNCHANGED <<farms, editingWaterUsage, confirmDelete>>
    /\ RenderOf(farms', weatherData')

handleAddFarm ==
    /\ NoDialog
    /\ Len(farms) < MaxSavedFarms
    /\ farms' = Append(farms, NewFarm(Len(farms) + 1, SizeTen))
    /\ UNCHANGED <<weatherData, editingWaterUsage, confirmDelete>>
    /\ RenderOf(farms', weatherData')

handleDeleteFarm ==
    /\ NoDialog
    /\ \E i \in 1..Len(farms) : confirmDelete' = [id |-> farms[i].id, type |-> "farm"]
    /\ UNCHANGED <<farms, weatherData, editingWaterUsage>>
    /\ RenderOf(farms', weatherData')

\* the number of water entries the page holds
SumOfLengths(fs) ==
    IF Len(fs) = 0 THEN 0
    ELSE SumSeq([k \in 1..Len(fs) |-> R(Len(fs[k].waterHistory))])[1]

\* the water form submitted for the farm chosen in its select
handleAddWaterUsage ==
    /\ NoDialog
    /\ \E i \in 1..Len(farms), date \in FormDates :
           LET farmId == IdToString(farms[i].id)
               Added(farm) ==
                   IF farm.id = ParseInt(farmId)
                   THEN [farm EXCEPT !.waterHistory =
                            Append(@, [amount |-> ParseFloat(FormAmount)[1],
                                       date |-> date])]
                   ELSE farm
           IN /\ SumOfLengths(farms) < MaxWater
              /\ farms' = Array([k \in 1..Len(farms) |-> Added(farms[k])])
    /\ UNCHANGED <<weatherData, editingWaterUsage, confirmDelete>>
    /\ RenderOf(farms', weatherData')

\* the edit button of a water entry of the history list
handleEditHistory ==
    /\ NoDialog
    /\ \E i \in 1..Len(farms) : \E j \in 1..Len(farms[i].waterHistory) :
           editingWaterUsage' = farms[i].waterHistory[j]
    /\ UNCHANGED <<farms, weatherData, confirmDelete>>
    /\ RenderOf(farms', weatherData')

\* the edit form submitted; handleEditHistory filled it with the entry, and
\* its farm and date may have been changed since
handleEditWaterUsage ==
    /\ editingWaterUsage # Null
    /\ \E i \in 1..Len(farms), date \in FormDates :
           LET farmId == IdToString(farms[i].id)
               Edited(usage) ==
                   IF usage.date = editingWaterUsage.date
                   THEN [usage EXCEPT !.amount = ParseFloat(FormAmount)[1],
                                      !.date = date]
                   ELSE usage
               Updated(farm) ==
                   IF farm.id = ParseInt(farmId)
                   THEN [farm EXCEPT !.waterHistory =
                            Array([j \in 1..Len(@) |-> Edited(@[j])])]
                   ELSE farm
           IN farms' = Array([k \in 1..Len(farms) |-> Updated(farms[k])])
    /\ editingWaterUsage' = Null
    /\ UNCHANGED <<weatherData, confirmDelete>>
    /\ RenderOf(farms', weatherData')

\* the edit dialog closed without submitting
cancelEditWaterUsage ==
    /\ editingWaterUsage # Null
    /\ editingWaterUsage' = Null
    /\ UNCHANGED <<farms, weatherData, confirmDelete>>
    /\ RenderOf(farms', weatherData')

\* the delete button of a water entry of the history list
handleDeleteHistory ==
    /\ NoDialog
    /\ \E i \in 1..Len(farms) : \E j \in 1..Len(farms[i].waterHistory) :
           confirmDelete' = [id |-> farms[i].id, type |-> "waterUsage",
                             date |-> farms[i].waterHistory[j].date]
    /\ UNCHANGED <<farms, weatherData, editingWaterUsage>>
    /\ RenderOf(farms', weatherData')

confirmDeleteAction ==
    /\ confirmDelete # Null
    /\ farms' =
          IF confirmDelete.type = "farm"
          THEN LET Kept(farm) == farm.id # confirmDelete.id
               IN Filter(farms, Kept)
          ELSE IF confirmDelete.type = "waterUsage"
          THEN LET Kept(usage) ==
                       ToISOString(usage.date) # ToISOString(confirmDelete.date)
                   Updated(farm) ==
                       IF farm.id = confirmDelete.id
                       THEN [farm EXCEPT !.waterHistory = Filter(@, Kept)]
                       ELSE farm
               IN Array([k \in 1..Len(farms) |-> Updated(farms[k])])
          ELSE farms
    /\ tasks' =
          IF confirmDelete.type = "task"
          THEN LET Kept(task) == task.id # confirmDelete.id
               IN Filter(tasks, Kept)
          ELSE tasks
    /\ cropPlanEvents' =
          IF confirmDelete.type = "cropEvent"
          THEN LET Kept(event) == event.id # confirmDelete.eventId
               IN Filter(cropPlanEvents, Kept)
          ELSE cropPlanEvents
    /\ confirmDelete' = Null
    /\ UNCHANGED <<weatherData, editingWaterUsage, issues, importNotification,
                   exported>>
    /\ ScoresOf(farms', weatherData')
    /\ UNCHANGED <<reportVars, financeVars>>

\* the confirmation dialog cancelled or closed
cancelDelete ==
    /\ confirmDelete # Null
    /\ confirmDelete' = Null
    /\ UNCHANGED <<farms, weatherData, editingWaterUsage>>
    /\ RenderOf(farms', weatherData')

\* the page with no farm saved, before the weather has been fetched: without
\* farms the aggregator and the score card return null
Init ==
    /\ farms = <<>>
    /\ weatherData = <<>>
    /\ rendered = TRUE
    /\ farmMetrics = <<>>
    /\ sustainabilityMetrics = Null
    /\ scoreCard = Null
    /\ editingWaterUsage = Null
    /\ confirmDelete = Null
    /\ NoReports
    /\ NoFinance
    /\ NoData

Next ==
    \/ fetchWeatherData
    \/ handleAddFarm
    \/ handleDeleteFarm
    \/ handleAddWaterUsage
    \/ handleEditHistory
    \/ handleEditWaterUsage
    \/ cancelEditWaterUsage
    \/ handleDeleteHistory
    \/ confirmDeleteAction
    \/ cancelDelete

Spec == Init /\ [][Next]_vars

-----------------------------------------------------------------------------
(* Properties of the scorers and of the aggregator *)

Zero == R(0)

Hundred == R(100)

InRange(x) == Ge(x, Zero) /\ Le(x, Hundred)

\* the page has rendered and the aggregator produced a metrics record
Scored == rendered /\ sustainabilityMetrics # Null

\* the farms whose value for a sub-score is > 0
WithData(key) == {i \in 1..Len(farmMetrics) : Gt(farmMetrics[i][key], Zero)}

HasData(key) == WithData(key) # {}

KeysWithData == {k \in 1..Len(MetricKeys) : HasData(MetricKeys[k])}

\* the mean of a sub-score over the farms where it is > 0
MeanOfData(key) ==
    Div(SumSeq(Array([i \in 1..Len(farmMetrics) |->
                 IF i \in WithData(key) THEN farmMetrics[i][key] ELSE Zero])),
        R(Cardinality(WithData(key))))

\* the weights of the specification's table, in twentieths
TableWeight(key) ==
    CASE key = "waterEfficiency" -> 5
      [] key = "organicScore" -> 4
      [] key = "harvestEfficiency" -> 4
      [] key = "soilQualityScore" -> 4
      [] key = "rotationScore" -> 3

\* the sum of a term over the sub-scores that have data
SumOverData(Term(_)) ==
    SumSeq(Array([k \in 1..Len(MetricKeys) |->
        IF k \in KeysWithData THEN Term(MetricKeys[k]) ELSE Zero]))

WeightTerm(key) == Frac(TableWeight(key), 20)

WeightedTerm(key) == Mul(MeanOfData(key), Frac(TableWeight(key), 20))

\* the weighted mean of the sub-scores that have data
RenormalizedScore == Div(SumOverData(WeightedTerm), SumOverData(WeightTerm))

\* C1 (as claimed): every score of every scorer, and every value the
\* aggregator returns, lies in [0,100], whatever the amounts are.
C1_ScoresInRange ==
    Scored =>
        /\ \A i \in 1..Len(farmMetrics) : \A k \in 1..Len(MetricKeys) :
               InRange(farmMetrics[i][MetricKeys[k]])
        /\ InRange(sustainabilityMetrics.overallScore)
        /\ \A k \in 1..Len(MetricKeys) : InRange(sustainabilityMetrics[MetricKeys[k]])

\* C2: each sub-score the aggregator returns is the mean over the farms whose
\* value is > 0, and a sub-score no farm has data for adds nothing to the
\* weighted sum nor to the total weight (it is excluded, not counted as 0).
C2_AveragedOverFarmsWithData ==
    Scored =>
        /\ \A k \in 1..Len(MetricKeys) :
               sustainabilityMetrics[MetricKeys[k]] =
                   IF HasData(MetricKeys[k]) THEN MathRound(MeanOfData(MetricKeys[k]))
                   ELSE Zero
        /\ weightedSum(farmMetrics) = SumOverData(WeightedTerm)
        /\ totalWeight(farmMetrics) = SumOverData(WeightTerm)

\* C2 witness: two farms, a sub-score only one of them has data for and a
\* sub-score neither has data for
C2_Witness ==
    /\ Scored
    /\ Len(farmMetrics) = 2
    /\ Cardinality(WithData("waterEfficiency")) = 1
    /\ ~HasData("harvestEfficiency")
    /\ Cardinality(WithData("organicScore")) = 2

\* C3: the overall score is the weighted sum of the sub-scores that have data
\* divided by the sum of their weights; with one sub-score, it is that value.
C3_OverallIsRenormalized ==
    (Scored /\ KeysWithData # {}) =>
        /\ sustainabilityMetrics.overallScore = MathRound(RenormalizedScore)
        /\ \A k \in KeysWithData :
               KeysWithData = {k} =>
                   sustainabilityMetrics.overallScore =
                       sustainabilityMetrics[MetricKeys[k]]

\* C3 witness: water efficiency is the only sub-score with data, and it is
\* not 100
C3_Witness ==
    /\ Scored
    /\ KeysWithData = {1}
    /\ sustainabilityMetrics.overallScore # Hundred

\* C4: the aggregator returns null exactly when there is no farm or no
\* weather, and otherwise a record of numbers (never NaN).
C4_UnavailableIffEmpty ==
    rendered =>
        /\ (sustainabilityMetrics = Null) <=> (Len(farms) = 0 \/ Len(weatherData) = 0)
        /\ sustainabilityMetrics # Null =>
               /\ IsFinite(sustainabilityMetrics.overallScore)
               /\ \A k \in 1..Len(MetricKeys) :
                      IsFinite(sustainabilityMetrics[MetricKeys[k]])

\* C4 witness: farms but no weather series
C4_Witness ==
    rendered /\ Len(farms) > 0 /\ Len(weatherData) = 0 /\ sustainabilityMetrics = Null

\* the multiplier the score card applies for the current weather (the first
\* observation of the series): 0.95 for rain, and 0.95 for a temperature
\* above 35 or below 5
CurrentWeatherFactor ==
    LET label == ToLowerCase(weatherData[1].weather)
        wet == \E i \in 1..(Len(label) - 3) : SubSeq(label, i, i + 3) = rain
        extreme == weatherData[1].temp > 35 \/ weatherData[1].temp < 5
    IN Frac((IF wet THEN 95 ELSE 100) * (IF extreme THEN 95 ELSE 100), 10000)

\* C5 (as claimed): with a current weather observation, the aggregator's
\* overall score is its renormalized score times the weather multiplier.
C5_AggregatorWeatherAdjusted ==
    (Scored /\ KeysWithData # {}) =>
        sustainabilityMetrics.overallScore =
            MathRoundMul(RenormalizedScore, CurrentWeatherFactor)

\* C5 (amended): the weather multiplier is applied by the score card to its
\* own weighted score (0.4 water, 0.4 organic, 0.2 harvest); the aggregator
\* returns its renormalized score unadjusted, whatever the current weather.
C5_ScoreCardWeatherAdjusted ==
    (rendered /\ scoreCard # Null) =>
        /\ scoreCard.overallScore =
               MathRoundMul(scoreCardWeighted(farms, weatherData), CurrentWeatherFactor)
        /\ (Scored /\ KeysWithData # {}) =>
               sustainabilityMetrics.overallScore = MathRound(RenormalizedScore)

\* C5 witness: rain and an extreme temperature today; the score card's score
\* is below the aggregator's, which is the unadjusted one
C5_Witness ==
    /\ Scored
    /\ scoreCard # Null
    /\ CurrentWeatherFactor = Frac(9025, 10000)
    /\ KeysWithData # {}
    /\ sustainabilityMetrics.overallScore = MathRound(RenormalizedScore)
    /\ sustainabilityMetrics.overallScore #
           MathRoundMul(RenormalizedScore, CurrentWeatherFactor)
    /\ scoreCard.overallScore # MathRound(scoreCardWeighted(farms, weatherData))

\* the observations of a calendar day, for a well-formed date
ObservationsOn(day) ==
    {i \in 1..Len(weatherData) : day # BadDate /\ weatherData[i].date = day}

RainOn(day) ==
    \E i \in ObservationsOn(day) :
        weatherData[i].weather \in {getWeatherInfo(61)}

\* the water score the specification gives an application: 100 times 0.5 for
\* rain that day, 0.7 for rain the day before, 0.9 above 86 F (30 C), 0.95
\* below 50 F (10 C); temperatures of the series are in Fahrenheit
SpecifiedWaterScore(usage) ==
    LET day == usage.date
        hot == \E i \in ObservationsOn(day) : weatherData[i].temp > 86
        cold == \E i \in ObservationsOn(day) : weatherData[i].temp < 50
    IN Frac(100 * (IF RainOn(day) THEN 5 ELSE 10)
                * (IF day # BadDate /\ RainOn(day - 1) THEN 7 ELSE 10)
                * (IF hot THEN 90 ELSE IF cold THEN 95 ELSE 100), 10000)

\* C6 (as claimed): the water score of an application is 100 times every
\* applicable factor of the specification and nothing else.
C6_WaterFactorsCompound ==
    Scored =>
        \A i \in 1..Len(farms) :
            Len(farms[i].waterHistory) > 0 =>
                farmMetrics[i].waterEfficiency =
                    SpecifiedWaterScore(farms[i].waterHistory[Len(farms[i].waterHistory)])

\* the entries of a water history with the latest date
LatestDated(history) ==
    {j \in 1..Len(history) : \A k \in 1..Len(history) : history[k].date <= history[j].date}

\* C7 (as claimed): whatever the order in which the entries were added and
\* edited, the water score of a farm is the score of its latest-dated entry.
C7_ScoreOfLatestDatedEntry ==
    Scored =>
        \A i \in 1..Len(farms) : \A j \in LatestDated(farms[i].waterHistory) :
            farmMetrics[i].waterEfficiency =
                calculateWaterEfficiencyOf(farms[i].waterHistory[j], weatherData)

\* C8: a scorer over a history returns 0 for an empty history, and a value
\* computed from the entries otherwise: a water or rotation score above 0, a
\* harvest score that is a number in [0,100] or NaN, and 100 less 5 per
\* rain-day harvest when all yields are the same positive amount.
C8_EmptyHistoryScoresZero ==
    Scored =>
        \A i \in 1..Len(farms) :
            LET f == farms[i]
                m == farmMetrics[i]
                h == f.harvestHistory
                wet == Cardinality({j \in 1..Len(h) :
                           h[j].date # BadDate /\ RainOn(h[j].date)})
            IN /\ Len(f.waterHistory) = 0 => m.waterEfficiency = Zero
               /\ Len(h) = 0 => m.harvestEfficiency = Zero
               /\ Len(f.rotationHistory) = 0 => m.rotationScore = Zero
               /\ Len(f.waterHistory) > 0 => Gt(m.waterEfficiency, Zero)
               /\ Len(f.rotationHistory) > 0 => Gt(m.rotationScore, Zero)
               /\ Len(h) > 0 =>
                      /\ IsNaN(m.harvestEfficiency) \/ InRange(m.harvestEfficiency)
                      /\ (/\ \A j \in 1..Len(h) : h[j].amount = h[1].amount
                          /\ h[1].amount > 0
                          /\ \A j \in 1..Len(h) : h[j].date # BadDate)
                             => m.harvestEfficiency = R(100 - 5 * wet)

\* C8 witness: a farm with a harvest but neither water nor rotation entries
C8_Witness ==
    /\ Scored
    /\ \E i \in 1..Len(farms) :
           /\ Len(farms[i].waterHistory) = 0
           /\ Len(farms[i].rotationHistory) = 0
           /\ Len(farms[i].harvestHistory) > 0
           /\ farmMetrics[i].waterEfficiency = Zero
           /\ farmMetrics[i].rotationScore = Zero
           /\ Gt(farmMetrics[i].harvestEfficiency, Zero)

\* the fertilizer types of the model that count as organic
OrganicTypes == {Compost, CowManure}

OrganicApplications(f) ==
    {j \in 1..Len(f.fertilizerHistory) : f.fertilizerHistory[j].type \in OrganicTypes}

RECURSIVE AmountOf(_, _)
AmountOf(history, S) ==
    IF S = {} THEN 0
    ELSE LET j == CHOOSE j \in S : TRUE
         IN history[j].amount + AmountOf(history, S \ {j})

TotalAmount(f) == AmountOf(f.fertilizerHistory, 1..Len(f.fertilizerHistory))

OrganicAmount(f) == AmountOf(f.fertilizerHistory, OrganicApplications(f))

Clamp(x) == IF Lt(x, Zero) THEN Zero ELSE IF Gt(x, Hundred) THEN Hundred ELSE x

\* 70 + 20 * organic share - penalty + min(10, 2 * rotations) + 10 for three
\* or more organic applications, clamped
OrganicFormula(f, penalty) ==
    Clamp(Add(Sub(Add(R(70), Frac(20 * OrganicAmount(f), TotalAmount(f))), penalty),
              R(Min(10, 2 * Len(f.rotationHistory))
                + (IF Cardinality(OrganicApplications(f)) >= 3 THEN 10 ELSE 0))))

\* min(30, chemicalAmount / 1000 * 10)
ChemicalPenalty(f) ==
    LET chemical == TotalAmount(f) - OrganicAmount(f)
    IN IF chemical >= 3000 THEN R(30) ELSE Frac(chemical, 100)

\* C9 (as claimed): with a total amount > 0 the organic score is the formula
\* with the chemical penalty min(30, chemicalAmount / 1000 * 10).
C9_OrganicFormulaAnyPenalty ==
    Scored =>
        \A i \in 1..Len(farms) :
            TotalAmount(farms[i]) > 0 =>
                farmMetrics[i].organicScore =
                    OrganicFormula(farms[i], ChemicalPenalty(farms[i]))

\* C9 (amended): the same formula, the chemical penalty being subtracted
\* only when the chemical amount is > 0 (a negative chemical amount, from
\* negative entries, changes nothing).
C9_OrganicFormula ==
    Scored =>
        \A i \in 1..Len(farms) :
            TotalAmount(farms[i]) > 0 =>
                farmMetrics[i].organicScore =
                    OrganicFormula(farms[i],
                        IF TotalAmount(farms[i]) > OrganicAmount(farms[i])
                        THEN ChemicalPenalty(farms[i]) ELSE Zero)

\* C9 witness: a single application of 100 lb of compost, no rotation: 90
C9_Witness ==
    /\ Scored
    /\ Len(farms) = 1
    /\ Len(farms[1].fertilizerHistory) = 1
    /\ farms[1].fertilizerHistory[1].type = Compost
    /\ farms[1].fertilizerHistory[1].amount = 100
    /\ Len(farms[1].rotationHistory) = 0
    /\ farmMetrics[1].organicScore = R(90)

\* C10 (as claimed): without any fertilizer entry the organic score is 70,
\* whatever the rotation history.
C10_NoFertilizerScoresBase ==
    Scored =>
        \A i \in 1..Len(farms) :
            Len(farms[i].fertilizerHistory) = 0 => farmMetrics[i].organicScore = R(70)

\* C10 (amended): without any fertilizer entry the organic score is 70 plus
\* the rotation bonus min(10, 2 * rotations); none of the fertilizer terms
\* applies, and the score is 70 when there is no rotation entry either.
C10_NoFertilizerScoresBasePlusRotation ==
    Scored =>
        \A i \in 1..Len(farms) :
            Len(farms[i].fertilizerHistory) = 0 =>
                farmMetrics[i].organicScore =
                    R(70 + Min(10, 2 * Len(farms[i].rotationHistory)))

\* C10 witness: no fertilizer entry and three rotation entries: 76
C10_Witness ==
    /\ Scored
    /\ \E i \in 1..Len(farms) :
           /\ Len(farms[i].fertilizerHistory) = 0
           /\ Len(farms[i].rotationHistory) = 3
           /\ farmMetrics[i].organicScore = R(76)

-----------------------------------------------------------------------------
(* The harvest, rotation and soil formulas *)

Mean(s) == Div(SumSeq(s), R(Len(s)))

\* the population standard deviation of s divided by its mean
CoefficientOfVariation(s) ==
    LET m == Mean(s)
        squares == Array([i \in 1..Len(s) |-> Mul(Sub(s[i], m), Sub(s[i], m))])
    IN Div(MathSqrt(Mean(squares)), m)

\* the harvests of a history made on a day that has a rain observation
RainDayHarvests(h) == {i \in 1..Len(h) : RainOn(h[i].date)}

HarvestFormula(h) ==
    Clamp(Sub(Sub(Hundred, Mul(R(20), CoefficientOfVariation(Amounts(h)))),
              R(5 * Cardinality(RainDayHarvests(h)))))

EqualYields(h) == \A i, j \in 1..Len(h) : h[i].amount = h[j].amount

\* C11: the harvest score of a non-empty history with well-formed dates is
\* clamp(100 - 20 * CV - 5 * k) for k harvests on rain days, a value of
\* [0,100], and a history of equal yields with no harvest on a rain day
\* scores 100
C11_HarvestFormula ==
    Scored =>
        \A i \in 1..Len(farms) :
            LET h == farms[i].harvestHistory
            IN (Len(h) > 0 /\ \A j \in 1..Len(h) : h[j].date # BadDate) =>
                   /\ farmMetrics[i].harvestEfficiency = HarvestFormula(h)
                   /\ InRange(farmMetrics[i].harvestEfficiency)
                   /\ (EqualYields(h) /\ RainDayHarvests(h) = {})
                          => farmMetrics[i].harvestEfficiency = Hundred

DistinctCrops(rh) == {rh[i].crop : i \in 1..Len(rh)}

\* C12: the rotation score of n > 0 entries over u distinct crops is
\* min(100, min(100, 20 * n) + min(20, 5 * u)): it never exceeds 100 and is
\* 100 for every n >= 5
C12_RotationFormula ==
    Scored =>
        \A i \in 1..Len(farms) :
            LET n == Len(farms[i].rotationHistory)
                u == Cardinality(DistinctCrops(farms[i].rotationHistory))
                score == farmMetrics[i].rotationScore
            IN n > 0 =>
                   /\ score = R(Min(100, Min(100, 20 * n) + Min(20, 5 * u)))
                   /\ Le(score, Hundred)
                   /\ n >= 5 => score = Hundred

\* six entries of one crop score 100
C12_Witness ==
    /\ Scored
    /\ \E i \in 1..Len(farms) :
           /\ Len(farms[i].rotationHistory) = 6
           /\ Cardinality(DistinctCrops(farms[i].rotationHistory)) = 1
           /\ farmMetrics[i].rotationScore = Hundred

\* an attribute of a farm is present when it has a value, 0 included
Present(x) == x # Undefined

\* 70 + 5 * organic matter - 5 * |pH - 6.5| + min(15, 5 * rotations), clamped,
\* over the attributes that are present
SoilFormula(farm) ==
    LET om == IF Present(farm.organicMatter)
              THEN Mul(R(5), farm.organicMatter) ELSE Zero
        ph == IF Present(farm.soilPH)
              THEN Mul(R(5), MathAbs(Sub(farm.soilPH, Frac(65, 10)))) ELSE Zero
        rot == R(Min(15, 5 * Len(farm.rotationHistory)))
    IN Clamp(Add(Sub(Add(R(70), om), ph), rot))

\* C13: the soil score is the clamped formula over every present attribute,
\* a present value of 0 included
C13_SoilFormula ==
    Scored =>
        \A i \in 1..Len(farms) :
            farmMetrics[i].soilQualityScore = SoilFormula(farms[i])

-----------------------------------------------------------------------------
(* Malformed dates *)

\* C20: an entry or an observation with a malformed date matches nothing: a
\* water application with a malformed date gets no weather factor, and the
\* harvest score counts a rain penalty only for harvests whose well-formed
\* date has a rain observation
C20_MalformedDatesNeverMatch ==
    Scored =>
        \A i \in 1..Len(farms) :
            LET w == farms[i].waterHistory
                h == farms[i].harvestHistory
            IN /\ (Len(w) > 0 /\ w[Len(w)].date = BadDate)
                      => farmMetrics[i].waterEfficiency = Hundred
               /\ (Len(h) > 0 /\ Mean(Amounts(h)) # Zero)
                      => farmMetrics[i].harvestEfficiency = HarvestFormula(h)

-----------------------------------------------------------------------------
(* The reports page: the scores of the sustainability report *)

\* the selection 'all' of the farm selector; the ids of farms are positive
AllFarms == 0

\* the periods of the period selector the model selects
ReportPeriods == {"last-month", "all-time"}

\* values Math.random() returns: a number of [0, 1)
MathRandom == {R(0), Frac(99, 100)}

\* the filter of the crop selector is 'all'
getFilteredFarms(fs, selected) ==
    IF selected = AllFarms THEN fs
    ELSE LET Chosen(farm) == farm.id = selected IN SelectSeq(fs, Chosen)

\* the score of one farm, given the value Math.random() returned
calculateOverallScore(farm, random) ==
    MathRound(Add(R(70), Mul(random, R(20))))

calculateAverageScore(fs, random) ==
    IF Len(fs) = 0 THEN R(0)
    ELSE MathRound(Add(R(60), Mul(random, R(30))))

baseValue(metricName) ==
    CASE metricName = "waterEfficiency" -> R(75)
      [] metricName = "organicScore" -> R(65)
      [] metricName = "harvestEfficiency" -> R(80)
      [] metricName = "soilQualityScore" -> R(70)
      [] metricName = "rotationScore" -> R(60)
      [] OTHER -> R(70)

getAverageMetric(fs, metricName, random) ==
    MathRound(Add(baseValue(metricName), Mul(random, R(15))))

\* the score fields of the report the memo of the page can evaluate to: the
\* draws of Math.random() are free
SustainabilityDataOf(fs, selected) ==
    LET filteredFarms == getFilteredFarms(fs, selected)
        current == IF selected # AllFarms /\ Len(filteredFarms) > 0
                   THEN {calculateOverallScore(filteredFarms[1], r) : r \in MathRandom}
                   ELSE {calculateAverageScore(filteredFarms, r) : r \in MathRandom}
    IN {[overallScore |-> MathRound(score),
         metrics |->
             [waterEfficiency |-> getAverageMetric(filteredFarms, "waterEfficiency", w),
              organicScore |-> getAverageMetric(filteredFarms, "organicScore", o),
              harvestEfficiency |-> getAverageMetric(filteredFarms, "harvestEfficiency", h),
              soilQuality |-> getAverageMetric(filteredFarms, "soilQualityScore", q),
              cropRotation |-> getAverageMetric(filteredFarms, "rotationScore", c)]] :
           score \in current, w \in MathRandom, o \in MathRandom,
           h \in MathRandom, q \in MathRandom, c \in MathRandom}

\* the farm lists the reports page is given
ReportFarms == {Array([i \in 1..n |-> Plain(i)]) : n \in 0..MaxFarms}

\* the farm selector: 'all' or one of the farms
setSelectedFarm ==
    \E selected \in {AllFarms} \cup {farms[i].id : i \in 1..Len(farms)} :
        /\ selected # selectedFarm
        /\ selectedFarm' = selected
        /\ sustainabilityData' \in SustainabilityDataOf(farms, selected)
        /\ UNCHANGED <<dashboardVars, reportPeriod, financeVars, dataVars>>

\* the period selector: the page renders again; with a farm selected the
\* filtered list is a new array and the memo of the report is evaluated again
setReportPeriod ==
    \E period \in ReportPeriods :
        /\ period # reportPeriod
        /\ reportPeriod' = period
        /\ IF selectedFarm = AllFarms
           THEN UNCHANGED sustainabilityData
           ELSE sustainabilityData' \in SustainabilityDataOf(farms, selectedFarm)
        /\ UNCHANGED <<dashboardVars, selectedFarm, financeVars, dataVars>>

\* the reports page as mounted over a list of farms
InitReports ==
    /\ NoData
    /\ farms \in ReportFarms
    /\ weatherData = <<>>
    /\ rendered = TRUE
    /\ farmMetrics = <<>>
    /\ sustainabilityMetrics = Null
    /\ scoreCard = Null
    /\ editingWaterUsage = Null
    /\ confirmDelete = Null
    /\ selectedFarm = AllFarms
    /\ reportPeriod = "last-month"
    /\ sustainabilityData \in SustainabilityDataOf(farms, AllFarms)
    /\ NoFinance

NextReports == setSelectedFarm \/ setReportPeriod

SpecReports == InitReports /\ [][NextReports]_vars

\* C19: the scores of the sustainability report are a function of their
\* inputs: an evaluation over the same farms and the same selection returns
\* the scores of the evaluation before
C19_ReportScoresDeterministic ==
    [][(farms' = farms /\ selectedFarm' = selectedFarm)
          => sustainabilityData' = sustainabilityData]_vars

-----------------------------------------------------------------------------
(* The financial pages: the summaries of financial planning and of the     *)
(* financial tools, the goals and the exported report.                     *)
(*                                                                         *)
(* Sums.  a + b and a - b of the summaries round their result as binary    *)
(* floating point does, to Precision significant bits with ties to even    *)
(* (a JavaScript number has 53).  The amounts of the model are whole       *)
(* numbers, which need rounding only from 2^Precision on; quotients and    *)
(* products are exact.                                                     *)

Precision == 12

\* n / d for n >= 0 and d > 0, rounded to a whole number, a tie to the even one
RoundHalfEven(n, d) ==
    Val({IF 2 * r < d THEN q
         ELSE IF 2 * r > d THEN q + 1
         ELSE IF q % 2 = 0 THEN q ELSE q + 1 :
            q \in {n \div d}, r \in {n % d}})

\* the number of bits a whole number n >= 2^Precision has beyond Precision
RECURSIVE ExcessBits(_, _)
ExcessBits(n, k) ==
    IF n < 2^(Precision + k) THEN k ELSE ExcessBits(n, k + 1)

\* the floating-point number nearest to a whole number
Float(x) ==
    Val({IF ~IsFinite(a) \/ a[2] # 1 \/ Abs(a[1]) < 2^Precision THEN a
         ELSE Val({R(Sgn(a[1]) * RoundHalfEven(Abs(a[1]), 2^k) * 2^k) :
                      k \in {ExcessBits(Abs(a[1]), 1)}}) :
            a \in {x}})

\* a + b
Plus(a, b) == Float(Add(a, b))

\* a - b
Minus(a, b) == Float(Sub(a, b))

revenue == <<"r", "e", "v", "e", "n", "u", "e">>

income == <<"i", "n", "c", "o", "m", "e">>

cost == <<"c", "o", "s", "t">>

expense == <<"e", "x", "p", "e", "n", "s", "e">>

\* new Date().getFullYear()
CurrentYear == 2024

\* a date of a form: a well-formed date string, by its getFullYear() and
\* getMonth()
DateOf(year, month) == [year |-> year, month |-> month]

getFullYear(date) == date.year

getMonth(date) == date.month

FinancialEntry(id, farmId, date, type, amount, category) ==
    [id |-> id, farmId |-> farmId, date |-> date, type |-> type,
     amount |-> amount, category |-> category]

FinancialGoal(id, title, amount, deadline, progress) ==
    [id |-> id, title |-> title, amount |-> amount, deadline |-> deadline,
     progress |-> progress]

\* entries.reduce((sum, entry) => sum + entry.amount, 0)
RECURSIVE ReduceAmounts(_)
ReduceAmounts(entries) ==
    Val({IF Len(t) = 0 THEN R(0)
         ELSE Plus(ReduceAmounts(SubSeq(t, 1, Len(t) - 1)), t[Len(t)].amount) :
            t \in {entries}})

\* entries.filter(entry => entry.category === category).reduce(...)
CategoryTotal(entries, category) ==
    LET InCategory(entry) == entry.category = category
    IN ReduceAmounts(SelectSeq(entries, InCategory))

\* the keys of a record filled by entries.forEach, in the order Object.entries
\* lists them: the order in which the types first occur
RECURSIVE TypesOf(_)
TypesOf(entries) ==
    Val({IF Len(t) = 0 THEN <<>>
         ELSE Val({IF \E i \in 1..Len(before) : before[i] = t[Len(t)].type
                   THEN before ELSE Append(before, t[Len(t)].type) :
                      before \in {TypesOf(SubSeq(t, 1, Len(t) - 1))}}) :
            t \in {entries}})

\* byCategory[type] after the forEach over entries:
\* byCategory[entry.type] = (byCategory[entry.type] || 0) + entry.amount
RECURSIVE ByCategory(_, _)
ByCategory(entries, type) ==
    Val({IF Len(t) = 0 THEN Undefined
         ELSE Val({IF t[Len(t)].type = type
                   THEN Plus(OrElse(before, R(0)), t[Len(t)].amount)
                   ELSE before :
                      before \in {ByCategory(SubSeq(t, 1, Len(t) - 1), type)}}) :
            t \in {entries}})

\* Object.entries(byCategory).map(([name, value]) => ({ name, value }))
PieData(entries) ==
    LET types == TypesOf(entries)
    IN Array([i \in 1..Len(types) |->
                 [name |-> types[i], value |-> ByCategory(entries, types[i])]])

farmSummariesOf(entries, fs) ==
    Array([i \in 1..Len(fs) |->
        LET OfFarm(entry) == entry.farmId = fs[i].id
            farmEntries == SelectSeq(entries, OfFarm)
            farmIncome == CategoryTotal(farmEntries, "income")
            farmExpenses == CategoryTotal(farmEntries, "expense")
        IN [farmId |-> fs[i].id, income |-> farmIncome, expenses |-> farmExpenses,
            profit |-> Minus(farmIncome, farmExpenses)]])

\* the months of getMonth()
Months == 12

monthlyDataOf(entries) ==
    Array([m \in 1..Months |->
        LET InMonth(entry) == getMonth(entry.date) = m - 1
            monthEntries == SelectSeq(entries, InMonth)
            monthIncome == CategoryTotal(monthEntries, "income")
            monthExpenses == CategoryTotal(monthEntries, "expense")
        IN [month |-> m - 1, income |-> monthIncome, expenses |-> monthExpenses,
            profit |-> Minus(monthIncome, monthExpenses)]])

\* totalExpenses > 0 ? ((totalIncome - totalExpenses) / totalExpenses) * 100 : 0
roiOf(totalIncome, totalExpenses) ==
    IF Gt(totalExpenses, R(0))
    THEN Mul(Div(Minus(totalIncome, totalExpenses), totalExpenses), R(100))
    ELSE R(0)

\* (x / target) * 100
PercentOf(x, target) == Mul(Div(x, target), R(100))

\* a progress rule that looks for 'cost' and 'expense' first
goalProgressCostFirst(goal, totalIncome, totalExpenses, netProfit) ==
    Val({IF Includes(title, cost) \/ Includes(title, expense)
         THEN MathMin(R(100),
                      PercentOf(MathMax(R(0), Minus(goal.amount, totalExpenses)),
                                goal.amount))
         ELSE IF Includes(title, revenue) \/ Includes(title, income)
         THEN MathMin(R(100), PercentOf(totalIncome, goal.amount))
         ELSE MathMin(R(100), PercentOf(netProfit, goal.amount)) :
            title \in {ToLowerCase(goal.title)}})

\* the progress of a goal of the selected year
goalProgress(goal, totalIncome, totalExpenses, netProfit) ==
    Val({IF Includes(title, revenue) \/ Includes(title, income)
         THEN MathMin(R(100), PercentOf(totalIncome, goal.amount))
         ELSE IF Includes(title, cost) \/ Includes(title, expense)
         THEN MathMin(R(100),
                      PercentOf(MathMax(R(0), Minus(goal.amount, totalExpenses)),
                                goal.amount))
         ELSE MathMin(R(100), PercentOf(netProfit, goal.amount)) :
            title \in {ToLowerCase(goal.title)}})

\* a recomputation that resets the goals of the other years
updatedGoalsResetOthers(gs, year, totalIncome, totalExpenses, netProfit) ==
    Array([i \in 1..Len(gs) |->
        IF getFullYear(gs[i].deadline) = year
        THEN [gs[i] EXCEPT !.progress =
                  goalProgress(gs[i], totalIncome, totalExpenses, netProfit)]
        ELSE [gs[i] EXCEPT !.progress = R(0)]])

\* goals.map(goal => ...)
updatedGoalsOf(gs, year, totalIncome, totalExpenses, netProfit) ==
    Array([i \in 1..Len(gs) |->
        IF getFullYear(gs[i].deadline) = year
        THEN [gs[i] EXCEPT !.progress =
                  goalProgress(gs[i], totalIncome, totalExpenses, netProfit)]
        ELSE gs[i]])

\* financialData.filter(entry => new Date(entry.date).getFullYear() === year)
yearDataOf(entries, year) ==
    SelectSeq(entries, LAMBDA e : getFullYear(e.date) = year)

\* the summary of financial planning: the entries of the selected year
yearSummaryOf(entries, year, fs, gs) ==
    Val({[totalIncome |-> totalIncome,
          totalExpenses |-> totalExpenses,
          netProfit |-> netProfit,
          roi |-> roiOf(totalIncome, totalExpenses),
          farmSummaries |-> farmSummariesOf(yearData, fs),
          monthlyData |-> monthlyDataOf(yearData),
          incomePieData |->
              PieData(SelectSeq(yearData, LAMBDA e : e.category = "income")),
          expensePieData |->
              PieData(SelectSeq(yearData, LAMBDA e : e.category # "income")),
          updatedGoals |->
              updatedGoalsOf(gs, year, totalIncome, totalExpenses, netProfit)] :
            yearData \in {yearDataOf(entries, year)},
            totalIncome \in {CategoryTotal(
                yearDataOf(entries, year), "income")},
            totalExpenses \in {CategoryTotal(
                yearDataOf(entries, year), "expense")},
            netProfit \in {Minus(
                CategoryTotal(
                    yearDataOf(entries, year), "income"),
                CategoryTotal(
                    yearDataOf(entries, year), "expense"))}})

\* the summary of the financial tools: all entries
financialSummaryOf(entries, fs) ==
    Val({[totalIncome |-> totalIncome,
          totalExpenses |-> totalExpenses,
          netProfit |-> Minus(totalIncome, totalExpenses),
          roi |-> roiOf(totalIncome, totalExpenses),
          farmSummaries |-> farmSummariesOf(entries, fs),
          monthlyData |-> monthlyDataOf(entries),
          incomePieData |->
              PieData(SelectSeq(entries, LAMBDA e : e.category # "expense")),
          expensePieData |->
              PieData(SelectSeq(entries, LAMBDA e : e.category = "expense"))] :
            totalIncome \in {CategoryTotal(entries, "income")},
            totalExpenses \in {CategoryTotal(entries, "expense")}})

\* Number.prototype.toFixed(2), as the number the text denotes
ToFixed2(x) == Div(MathRound(Mul(x, R(100))), R(100))

\* the summary box of the exported report; roi is a percent text or 'N/A'
generateFinancialPDF(fs, entries) ==
    Val({[totalIncome |-> totalIncome,
          totalExpenses |-> totalExpenses,
          netProfit |-> netProfit,
          roi |-> IF Gt(totalExpenses, R(0))
                  THEN [text |-> "%", percent |->
                           ToFixed2(Mul(Div(netProfit, totalExpenses), R(100)))]
                  ELSE [text |-> "N/A"]] :
            totalIncome \in {CategoryTotal(entries, "income")},
            totalExpenses \in {CategoryTotal(entries, "expense")},
            netProfit \in {Minus(CategoryTotal(entries, "income"),
                                 CategoryTotal(entries, "expense"))}})

MaxEntries == 3

MaxAddedEntries == 2

MaxAddedGoals == 1

\* the goals of a first visit
DefaultGoals ==
    <<FinancialGoal(1, <<"A", "n", "n", "u", "a", "l", " ", "R", "e", "v", "e", "n", "u", "e", " ", "T", "a", "r", "g", "e", "t">>,
                    R(120000), DateOf(CurrentYear, 11), R(0)),
      FinancialGoal(2, <<"R", "e", "d", "u", "c", "e", " ", "I", "n", "p", "u", "t", " ", "C", "o", "s", "t", "s">>,
                    R(25000), DateOf(CurrentYear, 11), R(0)),
      FinancialGoal(3, <<"E", "q", "u", "i", "p", "m", "e", "n", "t", " ", "P", "u", "r", "c", "h", "a", "s", "e", " ", "F", "u", "n", "d">>,
                    R(50000), DateOf(CurrentYear + 1, 5), R(0))>>

\* the years of the year selector the model selects
Years == {CurrentYear, CurrentYear + 1}

CropSales == <<"C", "r", "o", "p", " ", "S", "a", "l", "e", "s">>

Seeds == <<"S", "e", "e", "d", "s">>

\* what the entry form is submitted with: farm, date, type, amount, category
EntryForms ==
    {<<1, DateOf(CurrentYear, 0), CropSales, R(4096), "income">>,
     <<2, DateOf(CurrentYear + 1, 5), Seeds, R(8192), "expense">>}

\* what the goal form is submitted with: title, amount, deadline
GoalForms ==
    {<<<<"I", "n", "c", "o", "m", "e", " ", "a", "f", "t", "e", "r", " ", "C", "o", "s", "t", "s">>, R(8192), DateOf(CurrentYear, 11)>>,
     <<<<"E", "X", "P", "E", "N", "S", "E", " ", "c", "a", "p">>, R(16384), DateOf(CurrentYear + 1, 0)>>}

\* the farms the financial pages are given
FinanceFarms == <<Plain(1), Plain(2)>>

\* a render of the financial pages over the data they hold
FinanceRenderOf(entries, gs, year) ==
    /\ yearSummary' = yearSummaryOf(entries, year, farms, gs)
    /\ financialSummary' = financialSummaryOf(entries, farms)
    /\ UNCHANGED <<dashboardVars, reportVars, dataVars>>

\* the effect of the last render has stored the recomputed goals
Settled == goals = yearSummary.updatedGoals

\* the identity of an array created now: another one than that of the array
\* the goals are held in
NewArray == 1 - goalsRef

\* the effect after a render: setGoals(yearSummary.updatedGoals).  goals.map
\* returns a new array in every evaluation of the memo, and the memo is
\* evaluated in every render that follows a change of the goals, so the
\* dependency of the effect has changed after every render
updateGoals ==
    /\ goals' = yearSummary.updatedGoals
    /\ goalsRef' = NewArray
    /\ UNCHANGED <<financialData, selectedYear>>
    /\ FinanceRenderOf(financialData, goals', selectedYear)

\* the entry form of the financial tools; the id is the clock's reading
handleAddEntry ==
    /\ NoDialog
    /\ Settled
    /\ Len(financialData) < MaxAddedEntries
    /\ \E form \in EntryForms :
           /\ \E k \in 1..Len(farms) : farms[k].id = form[1]
           /\ financialData' =
               Append(financialData,
                      FinancialEntry(Len(financialData) + 1, form[1], form[2],
                                     form[3], form[4], form[5]))
    /\ UNCHANGED <<goals, goalsRef, selectedYear>>
    /\ FinanceRenderOf(financialData', goals, selectedYear)

setSelectedYear ==
    /\ Settled
    /\ \E year \in Years \ {selectedYear} : selectedYear' = year
    /\ UNCHANGED <<financialData, goals, goalsRef>>
    /\ FinanceRenderOf(financialData, goals, selectedYear')

\* the ids of the goals added through the form
AddedGoals == {i \in 1..Len(goals) : goals[i].id > Len(DefaultGoals)}

\* the goal form; the id is the clock's reading, progress starts at 0
handleAddGoal ==
    /\ Settled
    /\ Cardinality(AddedGoals) < MaxAddedGoals
    /\ \E form \in GoalForms :
           goals' = Append(goals,
                           FinancialGoal(Len(DefaultGoals) + Cardinality(AddedGoals) + 1,
                                         form[1], form[2], form[3], R(0)))
    /\ goalsRef' = NewArray
    /\ UNCHANGED <<financialData, selectedYear>>
    /\ FinanceRenderOf(financialData, goals', selectedYear)

handleDeleteGoal ==
    /\ Settled
    /\ \E i \in 1..Len(goals) :
           goals' = SelectSeq(goals, LAMBDA goal : goal.id # goals[i].id)
    /\ goalsRef' = NewArray
    /\ UNCHANGED <<financialData, selectedYear>>
    /\ FinanceRenderOf(financialData, goals', selectedYear)

\* the financial pages of a first visit, after their first render
InitFinance ==
    /\ NoData
    /\ farms = FinanceFarms
    /\ weatherData = <<>>
    /\ rendered = TRUE
    /\ farmMetrics = <<>>
    /\ sustainabilityMetrics = Null
    /\ scoreCard = Null
    /\ editingWaterUsage = Null
    /\ confirmDelete = Null
    /\ NoReports
    /\ financialData = <<>>
    /\ goals = DefaultGoals
    /\ goalsRef = 0
    /\ selectedYear = CurrentYear
    /\ yearSummary = yearSummaryOf(<<>>, CurrentYear, FinanceFarms, DefaultGoals)
    /\ financialSummary = financialSummaryOf(<<>>, FinanceFarms)

NextFinance ==
    \/ updateGoals
    \/ handleAddEntry
    \/ setSelectedYear
    \/ handleAddGoal
    \/ handleDeleteGoal

SpecFinance == InitFinance /\ [][NextFinance]_vars

-----------------------------------------------------------------------------
(* The summaries as functions of the entry list *)

\* the entry lists the summaries are given: what the entry form has been
\* submitted with, small amounts too; ids in the order of entry
EntryLists ==
    {Array([i \in 1..Len(forms) |->
               FinancialEntry(i, forms[i][1], forms[i][2], forms[i][3],
                              forms[i][4], forms[i][5])]) :
        forms \in SeqsUpTo(EntryForms \cup
                               {<<1, DateOf(CurrentYear, 0), CropSales, R(1), "income">>},
                           MaxEntries)}

\* the financial pages given an entry list, before their first render
InitSummary ==
    /\ NoData
    /\ farms = FinanceFarms
    /\ weatherData = <<>>
    /\ rendered = TRUE
    /\ farmMetrics = <<>>
    /\ sustainabilityMetrics = Null
    /\ scoreCard = Null
    /\ editingWaterUsage = Null
    /\ confirmDelete = Null
    /\ NoReports
    /\ financialData \in EntryLists
    /\ goals = DefaultGoals
    /\ goalsRef = 0
    /\ selectedYear \in Years
    /\ yearSummary = Null
    /\ financialSummary = Null

\* the first render of the financial pages
Summarize ==
    /\ yearSummary = Null
    /\ UNCHANGED <<financialData, goals, goalsRef, selectedYear>>
    /\ FinanceRenderOf(financialData, goals, selectedYear)

NextSummary == Summarize

SpecSummary == InitSummary /\ [][NextSummary]_vars

-----------------------------------------------------------------------------
(* The goal effect alone: the entries, the farms and the year stay as they are *)

\* financial planning after its first render, given its entries and its year
InitGoalCycle ==
    /\ NoData
    /\ farms = FinanceFarms
    /\ weatherData = <<>>
    /\ rendered = TRUE
    /\ farmMetrics = <<>>
    /\ sustainabilityMetrics = Null
    /\ scoreCard = Null
    /\ editingWaterUsage = Null
    /\ confirmDelete = Null
    /\ NoReports
    /\ financialData \in EntryLists
    /\ goals = DefaultGoals
    /\ goalsRef = 0
    /\ selectedYear \in Years
    /\ yearSummary = yearSummaryOf(financialData, selectedYear, farms, goals)
    /\ financialSummary = financialSummaryOf(financialData, farms)

NextGoalCycle == updateGoals

\* React runs the effect of a render whose dependency has changed
SpecGoalCycle == InitGoalCycle /\ [][NextGoalCycle]_vars /\ WF_vars(updateGoals)

-----------------------------------------------------------------------------
(* The farms and the transactions: the farm list changes on the farms tab, *)
(* the transactions are added on the financial tab.  yearSummary and        *)
(* financialSummary are those of the last render of the financial tab; a    *)
(* handler of the farms leaves them as they are.                            *)

NextLedger ==
    \/ handleAddFarm
    \/ handleDeleteFarm
    \/ confirmDeleteAction
    \/ cancelDelete
    \/ handleAddEntry
    \/ updateGoals

SpecLedger == InitFinance /\ [][NextLedger]_vars

-----------------------------------------------------------------------------
(* Properties of the financial summaries *)

\* the page has rendered its summaries
Summarized == yearSummary # Null /\ financialSummary # Null

\* the lists with the elements of s in another order
Reorderings(s) ==
    {Array([i \in 1..Len(s) |-> s[f[i]]]) :
        f \in {g \in [1..Len(s) -> 1..Len(s)] :
                  \A i, j \in 1..Len(s) : g[i] = g[j] => i = j}}

\* the totals of a pie, whatever the order of its slices
CategoryTotals(pie) == {pie[i] : i \in 1..Len(pie)}

\* two summaries with the same totals, roi, per-farm summaries, per-month
\* rollups and per-type totals
SameSummary(a, b) ==
    /\ a.totalIncome = b.totalIncome
    /\ a.totalExpenses = b.totalExpenses
    /\ a.netProfit = b.netProfit
    /\ a.roi = b.roi
    /\ a.farmSummaries = b.farmSummaries
    /\ a.monthlyData = b.monthlyData
    /\ CategoryTotals(a.incomePieData) = CategoryTotals(b.incomePieData)
    /\ CategoryTotals(a.expensePieData) = CategoryTotals(b.expensePieData)

\* C14: the summaries of a permuted copy of the entry list are the summaries
\* of the list
C14_SummaryOrderIndependent ==
    Summarized =>
        \A permuted \in Reorderings(financialData) :
            /\ SameSummary(yearSummaryOf(permuted, selectedYear, farms, goals),
                           yearSummary)
            /\ SameSummary(financialSummaryOf(permuted, farms), financialSummary)

\* (income - expenses) / expenses * 100
RoiFormula(totalIncome, totalExpenses) ==
    Mul(Div(Minus(totalIncome, totalExpenses), totalExpenses), Hundred)

\* a summary whose roi is no number without expenses and the formula with them
RoiGuarded(summary) ==
    /\ summary.totalExpenses = Zero => summary.roi = Undefined
    /\ Gt(summary.totalExpenses, Zero)
           => summary.roi = RoiFormula(summary.totalIncome, summary.totalExpenses)

\* C15: without expenses the summaries report no ROI (a value that is not a
\* number, 'N/A' in the exported report); with expenses the ROI is
\* (income - expenses) / expenses * 100
C15_RoiNotAvailableWithoutExpenses ==
    Summarized =>
        /\ RoiGuarded(yearSummary)
        /\ RoiGuarded(financialSummary)
        /\ LET report == generateFinancialPDF(farms, financialData)
           IN /\ report.totalExpenses = Zero => report.roi = [text |-> "N/A"]
              /\ Gt(report.totalExpenses, Zero)
                     => report.roi =
                            [text |-> "%", percent |->
                                ToFixed2(RoiFormula(report.totalIncome,
                                                    report.totalExpenses))]

-----------------------------------------------------------------------------
(* Properties of the goals *)

\* the title contains one of the words, whatever its case
Mentions(title, words) ==
    \E word \in words : Includes(ToLowerCase(title), word)

IncomeRule(goal) ==
    MathMin(Hundred, Mul(Div(yearSummary.totalIncome, goal.amount), Hundred))

CostRule(goal) ==
    MathMin(Hundred,
            Mul(Div(MathMax(Zero, Minus(goal.amount, yearSummary.totalExpenses)),
                    goal.amount), Hundred))

SavingsRule(goal) ==
    MathMin(Hundred, Mul(Div(yearSummary.netProfit, goal.amount), Hundred))

\* the goals whose deadline is in the selected year
DueThisYear == {i \in 1..Len(goals) : getFullYear(goals[i].deadline) = selectedYear}

\* C16: the recomputed progress of a goal of the selected year follows the
\* income rule if its title mentions revenue or income, else the cost rule if
\* it mentions cost or expense, else the savings rule
C16_ProgressByKeyword ==
    Summarized =>
        /\ Len(yearSummary.updatedGoals) = Len(goals)
        /\ \A i \in DueThisYear :
               yearSummary.updatedGoals[i].progress =
                   IF Mentions(goals[i].title, {revenue, income})
                   THEN IncomeRule(goals[i])
                   ELSE IF Mentions(goals[i].title, {cost, expense})
                   THEN CostRule(goals[i])
                   ELSE SavingsRule(goals[i])

\* a goal that mentions both income and cost has been given the progress of
\* the income rule, which is not the one of the cost rule
C16_Witness ==
    /\ Summarized
    /\ Settled
    /\ \E i \in DueThisYear :
           /\ Mentions(goals[i].title, {revenue, income})
           /\ Mentions(goals[i].title, {cost, expense})
           /\ goals[i].progress = IncomeRule(goals[i])
           /\ Gt(goals[i].progress, Zero)
           /\ goals[i].progress # CostRule(goals[i])

\* C17: the progress of every goal is a number of [0,100]
C17_ProgressInRange ==
    \A i \in 1..Len(goals) : InRange(goals[i].progress)

\* C18: the recomputation keeps the goals and their order, and returns every
\* goal whose deadline is in another year as it is: title, amount, deadline
\* and progress
C18_OtherYearsUnmodified ==
    Summarized =>
        /\ Len(yearSummary.updatedGoals) = Len(goals)
        /\ \A i \in 1..Len(goals) :
               /\ yearSummary.updatedGoals[i].id = goals[i].id
               /\ i \notin DueThisYear => yearSummary.updatedGoals[i] = goals[i]

\* the goals have been recomputed for a year (a goal of that year has a
\* progress other than 0) while a goal of another year keeps the progress an
\* earlier selection gave it
C18_Witness ==
    /\ Summarized
    /\ Settled
    /\ \E i \in DueThisYear : goals[i].progress # Zero
    /\ \E i \in (1..Len(goals)) \ DueThisYear : goals[i].progress # Zero

-----------------------------------------------------------------------------
(* The data of the application: tasks, issues, crop plan, export and import *)

MaxTasks == 1

MaxIssues == 1

MaxEvents == 1

\* the last reading of the clock at which an item is created
MaxClock == 2

\* a Date object, by the day it holds
DateObject(t) == [time |-> t]

\* Date.prototype.toJSON: the ISO text of a valid date, null of an invalid one
DateToJSON(d) == IF d.time = BadDate THEN Null ELSE [iso |-> d.time]

\* what JSON.stringify writes for a date field: a Date object by its toJSON,
\* a text as it is
DateFieldToJSON(value) ==
    IF "time" \in DOMAIN value THEN DateToJSON(value) ELSE value

\* what JSON.stringify writes for a number field: null unless it is finite
NumberToJSON(x) == IF x = Undefined \/ IsFinite(x) THEN x ELSE Null

\* new Date(value) of a field JSON.parse returned
NewDate(value) ==
    IF "iso" \in DOMAIN value THEN DateObject(value.iso)
    ELSE IF "time" \in DOMAIN value THEN value
    ELSE DateObject(0)

\* the day new Date() returns
Today == 1

Scout == <<"S", "c", "o", "u", "t">>

\* the task handleTaskSubmit creates
Task(id) == [id |-> id, title |-> Scout, dueDate |-> Today, priority |-> "medium",
             completed |-> FALSE]

\* the issue handleIssueSubmit creates
Issue(id) == [id |-> id, type |-> "pest", description |-> Scout, severity |-> "low",
              status |-> "open", dateReported |-> DateObject(Today)]

\* the event handleAddEvent creates
CropPlanEvent(id) == [id |-> id, title |-> Scout, start |-> DateObject(Today),
                      end |-> DateObject(Today), farmId |-> 0, type |-> "planting",
                      notes |-> <<>>]

Max(a, b) == IF a > b THEN a ELSE b

RECURSIVE MaxId(_)
MaxId(items) == IF items = <<>> THEN 0 ELSE Max(Head(items).id, MaxId(Tail(items)))

\* Date.now() when an item is added to a list: a reading later than the ids
\* of the list
DateNow(items) == 1 + MaxId(items)

handleTaskSubmit ==
    /\ NoDialog
    /\ DateNow(tasks) <= MaxClock
    /\ Len(tasks) < MaxTasks
    /\ tasks' = Append(tasks, Task(DateNow(tasks)))
    /\ UNCHANGED <<dashboardVars, reportVars, financeVars, issues, cropPlanEvents,
                   importNotification, exported>>

\* a delete button that removes the task at once
handleDeleteTaskAtOnce ==
    /\ NoDialog
    /\ \E i \in 1..Len(tasks) :
           tasks' = SelectSeq(tasks, LAMBDA task : task.id # tasks[i].id)
    /\ UNCHANGED <<dashboardVars, reportVars, financeVars, issues, cropPlanEvents,
                   importNotification, exported>>

handleDeleteTask ==
    /\ NoDialog
    /\ \E i \in 1..Len(tasks) : confirmDelete' = [id |-> tasks[i].id, type |-> "task"]
    /\ UNCHANGED <<farms, weatherData, editingWaterUsage>>
    /\ RenderOf(farms', weatherData')

handleIssueSubmit ==
    /\ NoDialog
    /\ DateNow(issues) <= MaxClock
    /\ Len(issues) < MaxIssues
    /\ issues' = Append(issues, Issue(DateNow(issues)))
    /\ UNCHANGED <<dashboardVars, reportVars, financeVars, tasks, cropPlanEvents,
                   importNotification, exported>>

handleResolveIssue ==
    /\ NoDialog
    /\ \E i \in 1..Len(issues) :
           issues' = SelectSeq(issues, LAMBDA issue : issue.id # issues[i].id)
    /\ UNCHANGED <<dashboardVars, reportVars, financeVars, tasks, cropPlanEvents,
                   importNotification, exported>>

handleAddEvent ==
    /\ NoDialog
    /\ DateNow(cropPlanEvents) <= MaxClock
    /\ Len(cropPlanEvents) < MaxEvents
    /\ cropPlanEvents' = Append(cropPlanEvents, CropPlanEvent(DateNow(cropPlanEvents)))
    /\ UNCHANGED <<dashboardVars, reportVars, financeVars, tasks, issues,
                   importNotification, exported>>

handleDeleteEvent ==
    /\ NoDialog
    /\ \E i \in 1..Len(cropPlanEvents) :
           confirmDelete' = [id |-> 0, type |-> "cropEvent",
                             eventId |-> cropPlanEvents[i].id]
    /\ UNCHANGED <<farms, weatherData, editingWaterUsage>>
    /\ RenderOf(farms', weatherData')

\* JSON.stringify of a farm and of a financial entry
FarmToJSON(farm) ==
    [farm EXCEPT !.organicMatter = NumberToJSON(@), !.soilPH = NumberToJSON(@)]

EntryToJSON(entry) == [entry EXCEPT !.amount = NumberToJSON(@)]

\* the text JSON.stringify(exportData) writes, as the document it denotes
JSONStringify(exportData) ==
    [json |->
        [version |-> exportData.version,
         exportDate |-> exportData.exportDate,
         farms |-> Array([i \in 1..Len(exportData.farms) |->
                             FarmToJSON(exportData.farms[i])]),
         tasks |-> exportData.tasks,
         issues |-> Array([i \in 1..Len(exportData.issues) |->
                              [exportData.issues[i] EXCEPT
                                  !.dateReported = DateFieldToJSON(@)]]),
         cropPlanEvents |->
             Array([i \in 1..Len(exportData.cropPlanEvents) |->
                       [exportData.cropPlanEvents[i] EXCEPT
                           !.start = DateFieldToJSON(@), !.end = DateFieldToJSON(@)]]),
         financialData |-> Array([i \in 1..Len(exportData.financialData) |->
                                     EntryToJSON(exportData.financialData[i])])]]

\* the export of the data the page holds
ExportDataOf(fs, ts, is, events, entries) ==
    [version |-> "1.0", exportDate |-> [iso |-> Today], farms |-> fs, tasks |-> ts,
     issues |-> is, cropPlanEvents |-> events, financialData |-> entries]

handleExportData ==
    /\ NoDialog
    /\ exported = Null
    /\ exported' = JSONStringify(ExportDataOf(farms, tasks, issues, cropPlanEvents,
                                              financialData))
    /\ UNCHANGED <<dashboardVars, reportVars, financeVars, tasks, issues,
                   cropPlanEvents, importNotification>>

\* JSON.parse returns the document of a text that is JSON and throws otherwise
CanParse(file) == "json" \in DOMAIN file

JSONParse(file) == file.json

Has(importedData, key) == key \in DOMAIN importedData

\* the import throws: the text is no JSON, version or exportDate is missing,
\* or cropPlanEvents has no map
ImportThrows(file) ==
    \/ ~CanParse(file)
    \/ ~Has(JSONParse(file), "version")
    \/ ~Has(JSONParse(file), "exportDate")
    \/ ~Has(JSONParse(file), "cropPlanEvents")

\* importedData.cropPlanEvents.map(event => ({...event, start: new Date(...), ...}))
processedEvents(importedData) ==
    Array([i \in 1..Len(importedData.cropPlanEvents) |->
              [importedData.cropPlanEvents[i] EXCEPT
                  !.start = NewDate(@), !.end = NewDate(@)]])

\* importedData[key] || []
ListOf(importedData, key) == IF Has(importedData, key) THEN importedData[key] ELSE <<>>

\* files of another origin: a text that is no JSON, an export without its
\* version, one without its crop plan, the export of an empty page, and one
\* written before the financial data was part of the export
Garbled == [garbled |-> TRUE]

NoVersionFile ==
    [json |-> [exportDate |-> [iso |-> Today], farms |-> <<>>, tasks |-> <<>>,
               issues |-> <<>>, cropPlanEvents |-> <<>>, financialData |-> <<>>]]

NoCropPlanFile ==
    [json |-> [version |-> "1.0", exportDate |-> [iso |-> Today], farms |-> <<>>,
               tasks |-> <<>>, issues |-> <<>>, financialData |-> <<>>]]

NoFinancialDataFile ==
    [json |-> [version |-> "1.0", exportDate |-> [iso |-> Today], farms |-> <<>>,
               tasks |-> <<>>, issues |-> <<>>, cropPlanEvents |-> <<>>]]

EmptyPageFile ==
    [json |-> [version |-> "1.0", exportDate |-> [iso |-> Today], farms |-> <<>>,
               tasks |-> <<>>, issues |-> <<>>, cropPlanEvents |-> <<>>,
               financialData |-> <<>>]]

ImportFiles ==
    {Garbled, NoVersionFile, NoCropPlanFile, NoFinancialDataFile, EmptyPageFile}

\* the files the file input is given
ChosenFiles == ImportFiles \cup (IF exported = Null THEN {} ELSE {exported})

\* an import that stores the farms of the document before it validates it
handleImportDataUnvalidated ==
    /\ NoDialog
    /\ \E file \in ChosenFiles :
           IF ImportThrows(file)
           THEN /\ importNotification' = [success |-> FALSE]
                /\ farms' = IF CanParse(file) THEN ListOf(JSONParse(file), "farms")
                            ELSE farms
                /\ UNCHANGED <<tasks, issues, cropPlanEvents, financialData>>
           ELSE /\ farms' = ListOf(JSONParse(file), "farms")
                /\ tasks' = ListOf(JSONParse(file), "tasks")
                /\ issues' = ListOf(JSONParse(file), "issues")
                /\ cropPlanEvents' = processedEvents(JSONParse(file))
                /\ financialData' =
                       IF Has(JSONParse(file), "financialData")
                       THEN JSONParse(file).financialData
                       ELSE financialData
                /\ importNotification' = [success |-> TRUE]
    /\ UNCHANGED <<weatherData, editingWaterUsage, confirmDelete, exported, reportVars,
                   goals, goalsRef, selectedYear, yearSummary, financialSummary>>
    /\ ScoresOf(farms', weatherData')

\* reader.onload of handleImportData for the file chosen
handleImportData ==
    /\ NoDialog
    /\ \E file \in ChosenFiles :
           IF ImportThrows(file)
           THEN /\ importNotification' = [success |-> FALSE]
                /\ UNCHANGED <<farms, tasks, issues, cropPlanEvents, financialData>>
           ELSE /\ farms' = ListOf(JSONParse(file), "farms")
                /\ tasks' = ListOf(JSONParse(file), "tasks")
                /\ issues' = ListOf(JSONParse(file), "issues")
                /\ cropPlanEvents' = processedEvents(JSONParse(file))
                /\ financialData' =
                       IF Has(JSONParse(file), "financialData")
                       THEN JSONParse(file).financialData
                       ELSE financialData
                /\ importNotification' = [success |-> TRUE]
    /\ UNCHANGED <<weatherData, editingWaterUsage, confirmDelete, exported, reportVars,
                   goals, goalsRef, selectedYear, yearSummary, financialSummary>>
    /\ ScoresOf(farms', weatherData')

\* the notification of the import closed
closeImportNotification ==
    /\ importNotification # Null
    /\ importNotification' = Null
    /\ UNCHANGED <<dashboardVars, reportVars, financeVars, tasks, issues,
                   cropPlanEvents, exported>>

\* what localStorage holds when the page is mounted
SavedFarms == <<[Plain(1) EXCEPT !.waterHistory = <<[amount |-> 40000, date |-> 1]>>]>>

SavedFinancialData ==
    <<FinancialEntry(1, 1, DateOf(CurrentYear, 0), CropSales, R(4096), "income")>>

\* the page mounted with its saved data, before the weather is fetched
InitData ==
    /\ farms = SavedFarms
    /\ weatherData = <<>>
    /\ rendered = TRUE
    /\ farmMetrics = <<>>
    /\ sustainabilityMetrics = Null
    /\ scoreCard = Null
    /\ editingWaterUsage = Null
    /\ confirmDelete = Null
    /\ NoReports
    /\ financialData = SavedFinancialData
    /\ goals = <<>>
    /\ goalsRef = 0
    /\ selectedYear = Null
    /\ yearSummary = Null
    /\ financialSummary = Null
    /\ NoData

\* The page is edited before the data are exported; the file written by the
\* export and the files of ImportFiles are then imported in any order.
NextData ==
    \/ fetchWeatherData
    \/ exported = Null /\ handleTaskSubmit
    \/ exported = Null /\ handleDeleteTask
    \/ exported = Null /\ handleIssueSubmit
    \/ exported = Null /\ handleResolveIssue
    \/ exported = Null /\ handleAddEvent
    \/ exported = Null /\ handleDeleteEvent
    \/ exported = Null /\ handleDeleteFarm
    \/ exported = Null /\ handleDeleteHistory
    \/ confirmDeleteAction
    \/ cancelDelete
    \/ handleExportData
    \/ handleImportData
    \/ closeImportNotification

SpecData == InitData /\ [][NextData]_vars

-----------------------------------------------------------------------------
(* Properties of the per-area figures of the score card *)

\* the size of the farm does not divide: it is zero or does not parse
NoArea(farm) == ParseFloat(farm.size) = R(0) \/ IsNaN(ParseFloat(farm.size))

\* the average efficiency of the water entries of a farm, 100 without entries
AvgWaterEfficiency(farm, weather) ==
    IF Len(farm.waterHistory) = 0 THEN Hundred
    ELSE Div(SumSeq([i \in 1..Len(farm.waterHistory) |->
                        OrElse(calculateWaterEfficiencyOf(farm.waterHistory[i], weather),
                               Zero)]),
             R(Len(farm.waterHistory)))

\* the metrics of a farm whose three per-area figures are 0
PerAreaZero(farm, weather) ==
    [waterEfficiency |-> Mul(Hundred, Div(AvgWaterEfficiency(farm, weather), Hundred)),
     organicScore |-> Hundred,
     harvestEfficiency |-> Zero]

\* C21: a farm whose size is zero or does not parse gets the metrics of
\* per-area figures of 0, whatever its totals
C21_NoAreaCountsAsZero ==
    rendered =>
        \A i \in 1..Len(farms) :
            NoArea(farms[i]) =>
                calculateFieldMetrics(farms[i], weatherData) =
                    PerAreaZero(farms[i], weatherData)

\* a farm of size zero with fertilizer applied has an organic score of 0, the
\* score of an unbounded amount per acre
C21_ZeroSizeUnbounded ==
    /\ rendered
    /\ \E i \in 1..Len(farms) :
           /\ ParseFloat(farms[i].size) = R(0)
           /\ SumSeq(Amounts(farms[i].fertilizerHistory)) = Hundred
           /\ calculateFieldMetrics(farms[i], weatherData).organicScore = Zero

-----------------------------------------------------------------------------
(* Properties of the handlers of the dashboard *)

\* g is h with some of its entries removed
RECURSIVE IsSubsequence(_, _)
IsSubsequence(g, h) ==
    IF g = <<>> THEN TRUE
    ELSE IF h = <<>> THEN FALSE
    ELSE IF Head(g) = Head(h) THEN IsSubsequence(Tail(g), Tail(h))
    ELSE IsSubsequence(g, Tail(h))

\* g is h with one entry appended
IsAppended(g, h) == Len(g) = Len(h) + 1 /\ SubSeq(g, 1, Len(h)) = h

\* C22: while the farms stay the same, a step changes the water history of a
\* farm only by appending an entry to it or by removing entries from it
C22_WaterEntriesImmutable ==
    [][Len(farms') = Len(farms) =>
          \A i \in 1..Len(farms) :
              \/ IsAppended(farms'[i].waterHistory, farms[i].waterHistory)
              \/ IsSubsequence(farms'[i].waterHistory, farms[i].waterHistory)]_vars

-----------------------------------------------------------------------------
(* The two aggregators *)

\* two values that differ at most in rounding
Near(a, b) ==
    \/ IsNaN(a) /\ IsNaN(b)
    \/ ~IsNaN(a) /\ ~IsNaN(b) /\ Le(MathAbs(Sub(a, b)), R(1))

\* C23: on the farms and the weather of a render the aggregator of the field
\* dashboard returns the overall score and the five metrics of the
\* aggregator of the farm dashboard, up to rounding
C23_AggregatorsAgree ==
    rendered =>
        LET ofFields == calculateSustainabilityMetricsOfFields(farms, weatherData)
        IN IF sustainabilityMetrics = Null THEN ofFields = Null
           ELSE /\ ofFields # Null
                /\ Near(ofFields.overallScore, sustainabilityMetrics.overallScore)
                /\ \A k \in 1..Len(MetricKeys) :
                       Near(ofFields[MetricKeys[k]],
                            sustainabilityMetrics[MetricKeys[k]])

\* C24: no two farms of the list have the same id
C24_FarmIdsUnique ==
    \A i, j \in 1..Len(farms) : farms[i].id = farms[j].id => i = j

\* h without its j-th entry
RemoveAt(h, j) == SubSeq(h, 1, j - 1) \o SubSeq(h, j + 1, Len(h))

\* C25: confirming the deletion of a water entry removes one entry of that
\* date from the history of one farm of the requested id, and changes
\* nothing else of the farms
C25_DeleteRemovesOneEntry ==
    [][(confirmDeleteAction /\ confirmDelete.type = "waterUsage") =>
          \E i \in 1..Len(farms) : \E j \in 1..Len(farms[i].waterHistory) :
              /\ farms[i].id = confirmDelete.id
              /\ farms[i].waterHistory[j].date = confirmDelete.date
              /\ farms' = [farms EXCEPT ![i].waterHistory = RemoveAt(@, j)]]_vars

-----------------------------------------------------------------------------
(* Properties of the confirmation of deletes *)

Ids(items) == {items[i].id : i \in 1..Len(items)}

\* the step removes a farm, a water entry of a farm that stays, a task or a
\* crop-plan event
RemovesItem ==
    \/ Ids(farms) \ Ids(farms') # {}
    \/ /\ Len(farms') = Len(farms)
       /\ \E i \in 1..Len(farms) :
              Len(farms'[i].waterHistory) < Len(farms[i].waterHistory)
    \/ Ids(tasks) \ Ids(tasks') # {}
    \/ Ids(cropPlanEvents) \ Ids(cropPlanEvents') # {}

\* a delete request only sets confirmDelete
RequestOnlyAsks ==
    (confirmDelete = Null /\ confirmDelete' # Null) =>
        UNCHANGED <<farms, tasks, issues, cropPlanEvents, financialData>>

\* Cancel resets confirmDelete and keeps farms, tasks and crop-plan events
CancelKeeps ==
    cancelDelete => confirmDelete' = Null /\ UNCHANGED <<farms, tasks, cropPlanEvents>>

\* Confirm resets confirmDelete and changes the collection of the requested
\* item only
ConfirmChangesOneCollection ==
    confirmDeleteAction =>
        /\ confirmDelete' = Null
        /\ confirmDelete.type \in {"farm", "waterUsage"} =>
               UNCHANGED <<tasks, cropPlanEvents>>
        /\ confirmDelete.type = "task" => UNCHANGED <<farms, cropPlanEvents>>
        /\ confirmDelete.type = "cropEvent" => UNCHANGED <<farms, tasks>>

\* the import has replaced the data
ImportSucceeds ==
    importNotification = Null /\ importNotification' = [success |-> TRUE]

-----------------------------------------------------------------------------
(* Properties of the import and of the export *)

\* the import ends with the failure notification
ImportFails ==
    importNotification = Null /\ importNotification' = [success |-> FALSE]

\* a failed import keeps the five collections
FailureKeeps ==
    ImportFails => UNCHANGED <<farms, tasks, issues, cropPlanEvents, financialData>>

\* the step stores the farms, tasks, issues and crop plan of the document
StoresListsOf(importedData) ==
    /\ farms' = ListOf(importedData, "farms")
    /\ tasks' = ListOf(importedData, "tasks")
    /\ issues' = ListOf(importedData, "issues")
    /\ cropPlanEvents' = processedEvents(importedData)

\* C27 as stated: a failed import keeps the five collections, a successful
\* one replaces the five by those of the file
C27_ImportReplacesAllFive ==
    [][/\ FailureKeeps
       /\ ImportSucceeds =>
              \E file \in ChosenFiles :
                  /\ ~ImportThrows(file)
                  /\ StoresListsOf(JSONParse(file))
                  /\ Has(JSONParse(file), "financialData")
                  /\ financialData' = JSONParse(file).financialData]_vars

\* C27: a failed import keeps the five collections; a successful one
\* replaces farms, tasks, issues and crop plan by those of the file, and the
\* financial data by that of the file if the file has any
C27_ImportAllOrNothing ==
    [][/\ FailureKeeps
       /\ ImportSucceeds =>
              \E file \in ChosenFiles :
                  /\ ~ImportThrows(file)
                  /\ StoresListsOf(JSONParse(file))
                  /\ financialData' =
                         IF Has(JSONParse(file), "financialData")
                         THEN JSONParse(file).financialData
                         ELSE financialData]_vars

\* an import has failed on a page that holds a farm, a task, an issue, a
\* crop-plan event and financial data
C27_Witness ==
    /\ importNotification = [success |-> FALSE]
    /\ farms # <<>>
    /\ tasks # <<>>
    /\ issues # <<>>
    /\ cropPlanEvents # <<>>
    /\ financialData # <<>>

\* what an import of the export of the page stores: the result of
\* handleImportData on the file handleExportData writes
ReimportedData ==
    JSONParse(JSONStringify(ExportDataOf(farms, tasks, issues, cropPlanEvents,
                                         financialData)))

\* C28: importing the export of the page's data gives the farms, tasks,
\* issues, crop-plan events and financial data of the page
C28_ExportImportRoundTrip ==
    /\ ~ImportThrows(JSONStringify(ExportDataOf(farms, tasks, issues, cropPlanEvents,
                                                financialData)))
    /\ ListOf(ReimportedData, "farms") = farms
    /\ ListOf(ReimportedData, "tasks") = tasks
    /\ ListOf(ReimportedData, "issues") = issues
    /\ processedEvents(ReimportedData) = cropPlanEvents
    /\ Has(ReimportedData, "financialData")
    /\ ReimportedData.financialData = financialData

-----------------------------------------------------------------------------
(* Properties of the goal effect *)

\* C29: with the entries, the farms and the year held fixed the goal updates
\* cease: from some render on the stored goals are the recomputed goals and
\* the effect stores no goals again
C29_GoalUpdatesCease == <>[](Settled /\ ~ENABLED updateGoals)

-----------------------------------------------------------------------------
(* Properties of the attribution of the transactions *)

\* summaries.reduce((sum, farm) => sum + farm[key], 0)
RECURSIVE SumOfSummaries(_, _)
SumOfSummaries(summaries, key) ==
    IF summaries = <<>> THEN R(0)
    ELSE Plus(SumOfSummaries(SubSeq(summaries, 1, Len(summaries) - 1), key),
              summaries[Len(summaries)][key])

\* the summary the financial tools render from the farms and the entries
SummaryNow == financialSummaryOf(financialData, farms)

\* C30: the incomes of the farm summaries add up to the total income and
\* their expenses to the total expenses
C30_FarmSummariesAddUp ==
    /\ SumOfSummaries(SummaryNow.farmSummaries, "income") = SummaryNow.totalIncome
    /\ SumOfSummaries(SummaryNow.farmSummaries, "expenses") = SummaryNow.totalExpenses

=============================================================================
